---- MODULE Spec2Model ----
(***************************************************************************)
(* Model of the generation session of the LoRA inference unit              *)
(* (lora/src/main/cpp/lora_inference.cpp): the process-wide handles, the    *)
(* streaming call generateStreaming and the non-streaming call generate.    *)
(*                                                                          *)
(* Text is a sequence of bytes, a byte is its value 0..255.  The engine     *)
(* (tokenizer, sampler, decode) is the environment: it picks the number of  *)
(* prompt tokens, the sampled tokens and the result of every decode call.   *)
(*                                                                          *)
(* The training unit (lora/src/main/cpp/lora_train.cpp) is modelled further *)
(* down, with specifications of its own: its dataset and epoch split.       *)
(***************************************************************************)
EXTENDS Integers, Sequences, FiniteSets, TLC

(***************************************************************************)
(* Bounds of the model                                                     *)
(***************************************************************************)
\* the largest maxTokens a call is given
MaxGen == 3

\* the largest context size a training model is loaded with
MaxTrainCtx == 8

\* the most tokens a training text tokenizes to
MaxText == 12

\* the most examples of a dataset whose epoch split is computed
MaxNdata == 40

(***************************************************************************)
(* Program constants                                                       *)
(***************************************************************************)
DefaultCtx == 2048
BatchLimit == 512
DefaultMaxTokens == 128
TrainDefaultCtx == 512

\* const char * stop_strs[]: the same table in generate and generateStreaming
stop_strs ==
  << <<60, 124, 105, 109, 95, 101, 110, 100, 124, 62>>,                    \* <|im_end|>
     <<60, 124, 105, 109, 95, 115, 116, 97, 114, 116, 124, 62>>,           \* <|im_start|>
     <<60, 124, 101, 111, 116, 95, 105, 100, 124, 62>>,                    \* <|eot_id|>
     <<60, 124, 115, 116, 97, 114, 116, 95, 104, 101, 97, 100, 101, 114,
       95, 105, 100, 124, 62>>,                                            \* <|start_header_id|>
     <<60, 101, 110, 100, 95, 111, 102, 95, 116, 117, 114, 110, 62>>,      \* <end_of_turn>
     <<60, 115, 116, 97, 114, 116, 95, 111, 102, 95, 116, 117, 114, 110,
       62>>,                                                               \* <start_of_turn>
     <<60, 124, 101, 110, 100, 124, 62>>,                                  \* <|end|>
     <<60, 124, 117, 115, 101, 114, 124, 62>>,                             \* <|user|>
     <<60, 124, 97, 115, 115, 105, 115, 116, 97, 110, 116, 124, 62>> >>    \* <|assistant|>

(***************************************************************************)
(* The engine's vocabulary, as far as the model draws from it: token ids    *)
(* and the byte fragment llama_token_to_piece gives for each.               *)
(***************************************************************************)
Vocab == {"EOG", "long", "pre", "suf", "emb", "e1", "e2", "nil"}

eog_never(tok) == FALSE

\* llama_vocab_is_eog
IsEog(tok) == tok = "EOG"

\* llama_token_to_piece: the fragment of a token (n <= 0 is the empty fragment);
\* the end-of-generation token has a fragment too, were it ever converted
Piece(tok) ==
  CASE tok = "EOG"  -> <<101, 110, 100, 124, 62>>                          \* end|>
    [] tok = "long" -> <<120, 195, 169, 32, 113, 117, 105, 99, 107, 32, 98,
                         114, 111, 119, 110, 32, 102, 111, 120, 32, 106>>  \* x(e-acute) quick brown fox j
    [] tok = "pre"  -> <<104, 105, 60, 124, 105, 109, 95>>                 \* hi<|im_
    [] tok = "suf"  -> <<101, 110, 100, 124, 62>>                          \* end|>
    [] tok = "emb"  -> <<60, 124, 105, 109, 95, 101, 110, 100, 124, 62,
                         60, 124, 105, 109, 95>>                           \* <|im_end|><|im_
    [] tok = "e1"   -> <<195>>                                             \* first byte of e-acute
    [] tok = "e2"   -> <<169>>                                             \* second byte of e-acute
    [] OTHER        -> <<>>

(***************************************************************************)
(* Inputs of the calls                                                     *)
(***************************************************************************)
\* nCtx given to loadModel (0: the default)
CtxChoices == {0, 513}
\* number of tokens the prompt tokenizes to
PromptSizes == {0, 513, 2048}
\* maxTokens given to a generation call: the least and the largest
MaxTokensChoices == {1, MaxGen}
\* temperature given to a generation call, in tenths
TempChoices == {0, 7}

\* the same for callers that leave maxTokens at its default: one fragment and
\* the end-of-generation token, maxTokens not positive (and one that is)
LongVocab == {"EOG", "pre"}
LongMaxTokens == {-1, 0, 2}
LongTemps == {7}

(***************************************************************************)
(* Byte strings                                                            *)
(***************************************************************************)
\* std::string::substr(pos, n), pos counted from 0
substr(s, pos, n) == SubSeq(s, pos + 1, pos + n)

\* result.size() >= stop_len && result.compare(size - stop_len, stop_len, stop) == 0
EndsWith(s, stop) ==
  /\ Len(s) >= Len(stop)
  /\ substr(s, Len(s) - Len(stop), Len(stop)) = stop

\* for (s = 0; stop_strs[s]; s++) ... break: the first stop string that is a
\* suffix of the text, 0 when none is
FirstStop(s) ==
  LET hits == {k \in 1..Len(stop_strs) : EndsWith(s, stop_strs[k])}
  IN  IF hits = {} THEN 0 ELSE CHOOSE k \in hits : \A j \in hits : k <= j

\* the stop test run again on what is left, until no stop string ends it
RECURSIVE strip_every_stop(_)
strip_every_stop(s) ==
  LET k == FirstStop(s)
  IN  IF k = 0 THEN s
      ELSE strip_every_stop(substr(s, 0, Len(s) - Len(stop_strs[k])))

\* result.resize(result.size() - stop_len) for the stop string found
StripStop(s) ==
  LET k == FirstStop(s)
  IN  IF k = 0 THEN s ELSE substr(s, 0, Len(s) - Len(stop_strs[k]))

RECURSIVE MaxLenFrom(_)
MaxLenFrom(k) ==
  IF k > Len(stop_strs) THEN 0
  ELSE LET rest == MaxLenFrom(k + 1)
       IN  IF Len(stop_strs[k]) > rest THEN Len(stop_strs[k]) ELSE rest

RECURSIVE MinLenFrom(_)
MinLenFrom(k) ==
  IF k = Len(stop_strs) THEN Len(stop_strs[k])
  ELSE LET rest == MinLenFrom(k + 1)
       IN  IF Len(stop_strs[k]) < rest THEN Len(stop_strs[k]) ELSE rest

min_stop_len == MinLenFrom(1)

\* int max_stop_len: the longest stop string
max_stop_len == MaxLenFrom(1)

(***************************************************************************)
(* utf8_complete_len                                                       *)
(***************************************************************************)
\* ((unsigned char) b & 0xC0) == 0x80
IsCont(b) == b >= 128 /\ b <= 191

\* while (i >= 0 && continuation(buf[i])) i--;   i counted from 0, -1 when none
RECURSIVE SkipCont(_, _)
SkipCont(buf, i) ==
  IF i >= 0 /\ IsCont(buf[i + 1]) THEN SkipCont(buf, i - 1) ELSE i

\* the length the lead byte announces, 0 for a byte that is no lead
Expected(lead) ==
  IF lead < 128 THEN 1
  ELSE IF lead >= 192 /\ lead <= 223 THEN 2
  ELSE IF lead >= 224 /\ lead <= 239 THEN 3
  ELSE IF lead >= 240 /\ lead <= 247 THEN 4
  ELSE 0

utf8_no_trim(buf, len) == IF len <= 0 THEN 0 ELSE len

utf8_complete_len(buf, len) ==
  IF len <= 0 THEN 0
  ELSE LET i == SkipCont(buf, len - 1)
       IN  IF i < 0 THEN 0
           ELSE LET expected == Expected(buf[i + 1])
                IN  IF expected = 0 THEN i
                    ELSE IF (len - i) >= expected THEN len
                    ELSE i

(***************************************************************************)
(* State                                                                   *)
(***************************************************************************)
VARIABLES
  g_backend_initialized,  \* llama_backend_init has run and llama_backend_free has not
  g_model,                \* g_model != nullptr
  g_context,              \* g_context != nullptr
  n_ctx,                  \* llama_n_ctx(g_context), 0 while there is no context
  g_stream_callback,      \* g_stream_callback != nullptr
  crashed,                \* the process was aborted by a JNI call on a null reference
  nullSinkCall,           \* a JNI call was issued on a null g_stream_callback
  args,                   \* the arguments of the generation calls under observation
  script,                 \* what the engine sampled and answered, per loop iteration
  s_pc,                   \* generateStreaming: where the call is
  s_cause,                \* generateStreaming: why the call ended
  smpl,                   \* generateStreaming: the sampler chain held
  batch,                  \* generateStreaming: the prefill batch is allocated
  idx,                    \* generateStreaming: prompt tokens submitted
  pos,                    \* generateStreaming: position of the next prompt token
  i,                      \* generateStreaming: loop counter
  accumulated,            \* generateStreaming: std::string accumulated
  n_streamed_chars,       \* generateStreaming: bytes already sent to the sink
  sinkLog,                \* what the registered sink received, in order
  s_prefill,              \* generateStreaming: the batches of the prompt given to llama_decode
  g_pc,                   \* generate: where the call is
  g_cause,                \* generate: why the call ended
  g_smpl,                 \* generate: the sampler chain held
  g_i,                    \* generate: loop counter
  result,                 \* generate: std::string result
  ret,                    \* generate: the value returned
  g_prefill,              \* generate: the batches of the prompt given to llama_decode
  longRun,                \* the callers leave maxTokens at its default
  utf8_call,              \* a call of utf8_complete_len on its own: buffer, len, value returned
  g_dataset,              \* training unit: the dataset handle, NoDataset when null
  built,                  \* training unit: what common_opt_dataset_init was last given
  t_ret,                  \* training unit: the value the last call returned
  epoch,                  \* training unit: what trainEpoch, if it was the last call, gave llama_opt_epoch
  opt_initialized,        \* training unit: llama_opt_init has run on the context that is loaded
  g_adapter,              \* the adapter handle, NoAdapter when null
  heap,                   \* the engine's objects that were created and not freed, per kind
  kv_cache,               \* what the memory of the context holds
  engine_calls,           \* the engine calls of the last operation, up to its first decode
  unit,                   \* which of the two libraries the process has loaded
  g_log_callback,         \* g_log_callback != nullptr
  log_refs,               \* global references to log sinks made and not deleted
  g_log_mutex,            \* the thread that holds g_log_mutex, "none" when free
  g_stream_mutex,         \* the thread that holds g_stream_mutex, "none" when free
  t_pc,                   \* where each thread is in a sink operation
  t_hold,                 \* the sink reference each thread has read for its call
  t_arg,                  \* the callback argument of the registration under way
  invoked                 \* per sink, the reference its last invocation went through

session == <<g_backend_initialized, g_model, g_context, n_ctx, g_stream_callback>>
faults  == <<crashed, nullSinkCall>>
stream  == <<s_pc, s_cause, smpl, batch, idx, pos, i, accumulated,
             n_streamed_chars, sinkLog, s_prefill>>
gen     == <<g_pc, g_cause, g_smpl, g_i, result, ret, g_prefill>>
train   == <<g_dataset, built, t_ret, epoch, opt_initialized>>
sinks   == <<g_log_callback, log_refs, g_log_mutex, g_stream_mutex, t_pc, t_hold,
             t_arg, invoked>>
sink_locks == <<g_log_mutex, g_stream_mutex, t_pc, t_hold, t_arg, invoked>>
rest    == <<longRun, utf8_call, train, unit, sinks>>
handles == <<g_adapter, heap, kv_cache, engine_calls>>
vars    == <<session, faults, args, script, stream, gen, rest, handles>>

\* the threads that reach the sinks: the one inside generateStreaming, one on
\* which the engine logs, and the one that registers sinks and cleans up
Threads == {"gen", "worker", "ctl"}
NoInvocation == [log |-> "none", stream |-> "none"]

\* no sink operation is under way and no log sink is registered
SinkIdle ==
  /\ g_log_callback = FALSE /\ log_refs = 0
  /\ g_log_mutex = "none" /\ g_stream_mutex = "none"
  /\ t_pc = [t \in Threads |-> "idle"]
  /\ t_hold = [t \in Threads |-> "none"]
  /\ t_arg = FALSE
  /\ invoked = NoInvocation

\* no call of utf8_complete_len on its own is looked at
NoCall == [buf |-> <<>>, len |-> 0, returned |-> FALSE, r |-> 0]

NoArgs == [nTok |-> -1, maxTokens |-> 0, temperature |-> 0]
NoRet  == [kind |-> "none", bytes |-> <<>>, msg |-> ""]
TextRet(bytes) == [kind |-> "text", bytes |-> bytes, msg |-> ""]
ErrorRet(msg)  == [kind |-> "error", bytes |-> <<>>, msg |-> msg]

\* what the sink receives
TokenEv(off, bytes, src, accLen) ==
  [type |-> "token", off |-> off, bytes |-> bytes, src |-> src, accLen |-> accLen]
ErrorEv(msg) ==
  [type |-> "error", off |-> 0, bytes |-> <<>>, src |-> msg, accLen |-> 0]
CompleteEv ==
  [type |-> "complete", off |-> 0, bytes |-> <<>>, src |-> "", accLen |-> 0]

\* a generation call is between its entry and its return
CallActive == s_pc \in {"prefill", "loop", "flush"} \/ g_pc \in {"loop", "exit"}

\* the calls under observation are forgotten: their locals are gone
StreamCleared ==
  /\ s_pc' = "none" /\ s_cause' = "none" /\ smpl' = "none" /\ batch' = "none"
  /\ idx' = 0 /\ pos' = 0 /\ i' = 0 /\ accumulated' = <<>>
  /\ n_streamed_chars' = 0 /\ sinkLog' = <<>> /\ s_prefill' = <<>>
GenCleared ==
  /\ g_pc' = "none" /\ g_cause' = "none" /\ g_smpl' = "none" /\ g_i' = 0
  /\ result' = <<>> /\ ret' = NoRet /\ g_prefill' = <<>>
ObservationCleared ==
  /\ args' = NoArgs /\ script' = <<>> /\ nullSinkCall' = FALSE
  /\ StreamCleared /\ GenCleared

InitSession ==
  /\ SinkIdle
  /\ g_backend_initialized = FALSE /\ g_model = FALSE /\ g_context = FALSE
  /\ n_ctx = 0 /\ g_stream_callback = FALSE
  /\ crashed = FALSE /\ nullSinkCall = FALSE
  /\ args = NoArgs /\ script = <<>>
  /\ s_pc = "none" /\ s_cause = "none" /\ smpl = "none" /\ batch = "none"
  /\ idx = 0 /\ pos = 0 /\ i = 0 /\ accumulated = <<>>
  /\ n_streamed_chars = 0 /\ sinkLog = <<>> /\ s_prefill = <<>>
  /\ g_pc = "none" /\ g_cause = "none" /\ g_smpl = "none" /\ g_i = 0
  /\ result = <<>> /\ ret = NoRet /\ g_prefill = <<>>

NoDataset == [ne_datapoint |-> 0, ndata |-> -1]
NoBuild   == [n_ctx |-> 0, stride |-> 0, tokens |-> <<>>]
NoTrainRet == [op |-> "none", kind |-> "none", msg |-> "", size |-> -1, ndata |-> -1]
NoEpoch   == [ndata |-> -1, idata_split |-> -1, has_eval |-> FALSE,
              result_eval |-> FALSE, callback_eval |-> FALSE]

\* g_adapter: of_model, the model it was created from is the one loaded;
\* applied, it is set on the context that is loaded
NoAdapter == [held |-> FALSE, of_model |-> FALSE, applied |-> FALSE]
NoHeap    == [model |-> 0, context |-> 0, adapter |-> 0, dataset |-> 0, applied |-> 0]

\* no adapter, nothing allocated by the engine
NoHandles ==
  /\ g_adapter = NoAdapter /\ heap = NoHeap
  /\ kv_cache = "empty" /\ engine_calls = <<>>

\* the training unit has done nothing
TrainIdle ==
  /\ g_dataset = NoDataset /\ built = NoBuild
  /\ t_ret = NoTrainRet /\ epoch = NoEpoch
  /\ opt_initialized = FALSE
  /\ NoHandles

Init == InitSession /\ longRun = FALSE /\ utf8_call = NoCall /\ TrainIdle /\ unit = "inference"

(***************************************************************************)
(* The engine's objects.  The engine is called by name; what is kept of it  *)
(* is how many objects of each kind were created and not freed, how many    *)
(* adapters are set on the context, and whether the memory of the context    *)
(* holds what this generation call decoded or what an earlier one did.       *)
(***************************************************************************)
model_leaked(h) == h

llama_model_load_from_file(h, ok) == IF ok THEN [h EXCEPT !.model = @ + 1] ELSE h
llama_model_free(h) == [h EXCEPT !.model = @ - 1]

context_kept(h) == h

\* a context is created with an empty memory and no adapter set
llama_init_from_model(h, ok) == IF ok THEN [h EXCEPT !.context = @ + 1] ELSE h
llama_free(h) == [h EXCEPT !.context = @ - 1, !.applied = 0]

adapter_leaked(h) == h

\* llama_adapter_lora_create and llama_adapter_lora_init
llama_adapter_lora_new(h, ok) == IF ok THEN [h EXCEPT !.adapter = @ + 1] ELSE h
llama_adapter_lora_free(h) == [h EXCEPT !.adapter = @ - 1]

adapter_left_set(h, a) == h

llama_set_adapter_lora(h, ok) == IF ok THEN [h EXCEPT !.applied = @ + 1] ELSE h
\* removes the adapter from the context when it is set on it
llama_rm_adapter_lora(h, a) == IF a.applied THEN [h EXCEPT !.applied = @ - 1] ELSE h

dataset_new(h) == [h EXCEPT !.dataset = @ + 1]
dataset_kept(h) == h

ggml_opt_dataset_free(h) == [h EXCEPT !.dataset = @ - 1]

memory_kept(kv) == kv

\* llama_memory_clear(llama_get_memory(g_context), true)
llama_memory_clear(kv) == "empty"

\* the memory as a call finds it: what the call before it decoded is now old
found(kv) == IF kv = "fresh" THEN "earlier" ELSE kv

\* llama_decode adds to the memory of the context
decoded_into(kv) == IF kv \in {"earlier", "mixed"} THEN "mixed" ELSE "fresh"

no_model_unchecked == FALSE

\* if (!g_model || !g_context)
no_model == ~g_model \/ ~g_context

\* the calls made when `cond` holds
When(cond, names) == IF cond THEN names ELSE <<>>

\* the adapter handle after the model it was created from, or the context it
\* was set on, is freed: the pointer is kept
orphaned(a) == IF a.held THEN [a EXCEPT !.of_model = FALSE, !.applied = FALSE] ELSE a

\* the part of loadModel after the backend check, the same in both units:
\* if (g_context) llama_free; if (g_model) llama_model_free; load; create the
\* context; on failure of the context free the model
ReplaceModel(modelOk, ctxOk) ==
  LET h1 == IF g_context THEN llama_free(heap) ELSE heap
      h2 == IF g_model THEN llama_model_free(h1) ELSE h1
      h3 == llama_model_load_from_file(h2, modelOk)
      h4 == IF modelOk THEN llama_init_from_model(h3, ctxOk) ELSE h3
      h5 == IF modelOk /\ ~ctxOk THEN llama_model_free(h4) ELSE h4
  IN  [heap  |-> h5,
       engine_calls |-> When(g_context, <<"llama_free">>)
                 \o When(g_model, <<"llama_model_free">>)
                 \o <<"llama_model_load_from_file">>
                 \o When(modelOk, <<"llama_init_from_model">>)
                 \o When(modelOk /\ ~ctxOk, <<"llama_model_free">>)]

\* the part of createLoraAdapter and loadLoraAdapter after the model check,
\* the same in both units: the adapter held is removed from the context and
\* freed, the new one is made (`maker`) and set on the context, and freed
\* again when it cannot be set
ReplaceAdapter(makeOk, applyOk, maker) ==
  LET h1 == IF g_adapter.held
            THEN llama_adapter_lora_free(llama_rm_adapter_lora(heap, g_adapter))
            ELSE heap
      h2 == llama_adapter_lora_new(h1, makeOk)
      h3 == IF makeOk THEN llama_set_adapter_lora(h2, applyOk) ELSE h2
      h4 == IF makeOk /\ ~applyOk THEN llama_adapter_lora_free(h3) ELSE h3
  IN  [heap  |-> h4,
       g_adapter |-> IF makeOk /\ applyOk
                     THEN [held |-> TRUE, of_model |-> TRUE, applied |-> TRUE]
                     ELSE NoAdapter,
       engine_calls |-> When(g_adapter.held, <<"llama_rm_adapter_lora", "llama_adapter_lora_free">>)
                 \o <<maker>>
                 \o When(makeOk, <<"llama_set_adapter_lora">>)
                 \o When(makeOk /\ ~applyOk, <<"llama_adapter_lora_free">>)]

\* cleanupLlama, up to the sinks, the same in both units: the adapter removed
\* from the context and freed, the context, the model and the backend freed
ReleaseAll(h) ==
  LET h1 == IF g_adapter.held /\ g_context
            THEN llama_rm_adapter_lora(h, g_adapter) ELSE h
      h2 == IF g_adapter.held THEN llama_adapter_lora_free(h1) ELSE h1
      h3 == IF g_context THEN llama_free(h2) ELSE h2
      h4 == IF g_model THEN llama_model_free(h3) ELSE h3
  IN  [heap  |-> h4,
       engine_calls |-> When(g_adapter.held /\ g_context, <<"llama_rm_adapter_lora">>)
                 \o When(g_adapter.held, <<"llama_adapter_lora_free">>)
                 \o When(g_context, <<"llama_free">>)
                 \o When(g_model, <<"llama_model_free">>)
                 \o When(g_backend_initialized, <<"llama_backend_free">>)]

(***************************************************************************)
(* Session operations.  Each starts a new observation: what earlier calls   *)
(* delivered belongs to the configuration that is replaced.                 *)
(***************************************************************************)
setStreamCallback(callback) ==
  /\ UNCHANGED <<rest, g_adapter, heap, kv_cache>>
  /\ engine_calls' = <<>>
  /\ ~crashed /\ ~CallActive
  /\ g_stream_callback' = callback
  /\ UNCHANGED <<g_backend_initialized, g_model, g_context, n_ctx, crashed>>
  /\ ObservationCleared

\* setLogCallback run from its lock to its unlock: the reference held is
\* deleted, the callback given, when not null, is held by a new one
RegisterLogSink(callback) ==
  /\ g_log_callback' = callback
  /\ log_refs' = (IF g_log_callback THEN log_refs - 1 ELSE log_refs)
                  + (IF callback THEN 1 ELSE 0)
  /\ UNCHANGED sink_locks

\* the log sink part of cleanupLlama run from its lock to its unlock
ReleaseLogSink ==
  /\ g_log_callback' = FALSE
  /\ log_refs' = IF g_log_callback THEN log_refs - 1 ELSE log_refs
  /\ UNCHANGED sink_locks

setLogCallback(callback) ==
  /\ UNCHANGED <<longRun, utf8_call, train, unit, g_adapter, heap, kv_cache>>
  /\ engine_calls' = <<>>
  /\ ~crashed /\ ~CallActive
  /\ RegisterLogSink(callback)
  /\ UNCHANGED <<session, crashed>>
  /\ ObservationCleared

initLlamaBackend ==
  /\ UNCHANGED <<rest, g_adapter, heap, kv_cache>>
  /\ engine_calls' = <<"llama_backend_init">>
  /\ ~crashed /\ ~CallActive
  /\ g_backend_initialized' = TRUE
  /\ UNCHANGED <<g_model, g_context, n_ctx, g_stream_callback, crashed>>
  /\ ObservationCleared

\* the model handle after a load that passed the backend check, with the
\* failing context creation left out: the model stays without its context
model_without_context(modelOk, ctxOk) == modelOk

\* the model handle after a load that passed the backend check: the model
\* that could not get its context is freed and the handle set to null
model_after(modelOk, ctxOk) == modelOk /\ ctxOk

\* hasModel: g_model != nullptr && g_context != nullptr
hasModel == g_model /\ g_context

\* int n_ctx_actual = (nCtx > 0) ? nCtx : 2048
n_ctx_actual(nCtx) == IF nCtx > 0 THEN nCtx ELSE DefaultCtx

loadModel(nCtx, modelOk, ctxOk) ==
  /\ UNCHANGED rest
  /\ ~crashed /\ ~CallActive
  /\ IF ~g_backend_initialized
     THEN /\ UNCHANGED <<g_model, g_context, n_ctx, g_adapter, heap, kv_cache>>
          /\ engine_calls' = <<>>
     ELSE /\ g_model' = model_after(modelOk, ctxOk)
          /\ g_context' = (modelOk /\ ctxOk)
          /\ n_ctx' = IF modelOk /\ ctxOk THEN n_ctx_actual(nCtx) ELSE 0
          /\ heap' = ReplaceModel(modelOk, ctxOk).heap
          /\ engine_calls' = ReplaceModel(modelOk, ctxOk).engine_calls
          /\ g_adapter' = orphaned(g_adapter)
          /\ kv_cache' = "empty"
  /\ UNCHANGED <<g_backend_initialized, g_stream_callback, crashed>>
  /\ ObservationCleared

cleanupLlama ==
  /\ UNCHANGED <<longRun, utf8_call, train, unit>>
  /\ ReleaseLogSink
  /\ ~crashed /\ ~CallActive
  /\ heap' = ReleaseAll(heap).heap /\ engine_calls' = ReleaseAll(heap).engine_calls
  /\ g_adapter' = NoAdapter /\ kv_cache' = "empty"
  /\ g_context' = FALSE /\ g_model' = FALSE /\ n_ctx' = 0
  /\ g_backend_initialized' = FALSE
  /\ g_stream_callback' = FALSE
  /\ UNCHANGED crashed
  /\ ObservationCleared

\* the locals of the generation calls are gone, the value returned is set
Returned(value) ==
  /\ args' = NoArgs /\ script' = <<>> /\ nullSinkCall' = FALSE
  /\ StreamCleared
  /\ g_pc' = "none" /\ g_cause' = "none" /\ g_smpl' = "none" /\ g_i' = 0
  /\ result' = <<>> /\ g_prefill' = <<>>
  /\ ret' = value

\* loadLoraAdapter of the inference unit
loadLoraAdapter(loadOk, applyOk) ==
  /\ UNCHANGED rest
  /\ ~crashed /\ ~CallActive
  /\ IF no_model
     THEN /\ Returned(ErrorRet("ERROR: Model not loaded"))
          /\ UNCHANGED <<g_adapter, heap>>
          /\ engine_calls' = <<>>
     ELSE LET new == ReplaceAdapter(loadOk, applyOk, "llama_adapter_lora_init")
          IN  /\ heap' = new.heap
              /\ g_adapter' = new.g_adapter
              /\ engine_calls' = new.engine_calls
              /\ Returned(IF ~loadOk THEN ErrorRet("ERROR: Failed to load LoRA adapter")
                          ELSE IF ~applyOk
                          THEN ErrorRet("ERROR: Failed to apply LoRA adapter")
                          ELSE [kind |-> "ok", bytes |-> <<>>, msg |-> "LoRA loaded from: "])
  /\ UNCHANGED <<session, crashed, kv_cache>>

\* removeLoraAdapter of the inference unit:
\* if (g_adapter && g_context) { remove, free, null }
removeLoraAdapter ==
  /\ UNCHANGED rest
  /\ ~crashed /\ ~CallActive
  /\ IF g_adapter.held /\ g_context
     THEN /\ heap' = llama_adapter_lora_free(llama_rm_adapter_lora(heap, g_adapter))
          /\ g_adapter' = NoAdapter
          /\ engine_calls' = <<"llama_rm_adapter_lora", "llama_adapter_lora_free">>
     ELSE /\ UNCHANGED <<g_adapter, heap>>
          /\ engine_calls' = <<>>
  /\ UNCHANGED <<session, crashed, kv_cache>>
  /\ ObservationCleared

\* the caller drops what it observed and turns to another prompt
Forget ==
  /\ UNCHANGED <<rest, g_adapter, heap, kv_cache>>
  /\ engine_calls' = <<>>
  /\ ~crashed /\ ~CallActive /\ args # NoArgs
  /\ UNCHANGED <<session, crashed>>
  /\ ObservationCleared

(***************************************************************************)
(* Parts shared by the two generation calls                                *)
(***************************************************************************)
max_gen_one_more(maxTokens) ==
  IF maxTokens > 0 THEN maxTokens + 1 ELSE DefaultMaxTokens + 1

\* int max_gen = (maxTokens > 0) ? maxTokens : 128
max_gen(maxTokens) == IF maxTokens > 0 THEN maxTokens ELSE DefaultMaxTokens

\* temperature <= 0.0f: greedy, otherwise top-k, top-p, temperature, dist
SamplerFor(temperature) == IF temperature <= 0 THEN "greedy" ELSE "chain"

prompt_too_long_strict(size) == size > n_ctx

\* if ((int) tokens.size() >= n_ctx)
prompt_too_long(size) == size >= n_ctx

sampler_kept(s) == s

\* llama_sampler_free: releases a chain that is held once
llama_sampler_free(s) == IF s = "none" THEN "double_free" ELSE "none"

\* llama_batch_free: releases a batch that is held once
llama_batch_free(b) == IF b = "none" THEN "double_free" ELSE "none"

\* a call may start: the first call of an observation with any arguments, a
\* second one (of the other kind) only on a deterministic engine, which then
\* replays the script, and with the same arguments
MaxTokensGiven == IF longRun THEN LongMaxTokens ELSE MaxTokensChoices
TempsGiven == IF longRun THEN LongTemps ELSE TempChoices
Sampled == IF longRun THEN LongVocab ELSE Vocab

MayCall(a) ==
  /\ ~crashed /\ ~CallActive
  /\ a.nTok \in Nat
  /\ a.maxTokens \in Int
  /\ a.temperature \in TempsGiven
  /\ args = NoArgs \/ (args = a /\ a.temperature <= 0)

\* llama_sampler_sample and the llama_decode that follows it, at iteration k
\* (counted from 0): the script's entry when one is recorded, else any
Engine(k) ==
  IF Len(script) > k THEN {script[k + 1]}
  ELSE {[tok |-> t, ok |-> o] : t \in Sampled, o \in BOOLEAN}

\* the script with iteration k recorded; a decode that was not called is
\* recorded as ok
Recorded(k, e, decoded) ==
  IF Len(script) > k THEN script
  ELSE Append(script, [tok |-> e.tok, ok |-> (e.ok \/ ~decoded)])

(***************************************************************************)
(* generateStreaming                                                       *)
(***************************************************************************)
stream_error_silent(log, msg) == log

\* stream_error: under the lock, nothing when no sink is registered
stream_error(log, msg) ==
  IF g_stream_callback THEN Append(log, ErrorEv(msg)) ELSE log

\* const int n_batch_size = llama_n_batch(g_context): ctx_params.n_batch
n_batch_size == BatchLimit

\* std::min<int32_t>(n_batch_size, (int32_t)(tokens.size() - idx))
take(size, at) == IF n_batch_size < size - at THEN n_batch_size ELSE size - at

\* if (is_stop) { flush the un-streamed text before the stop string }
StopFlush(acc, streamed) ==
  IF Len(acc) > streamed
  THEN LET remaining == substr(acc, streamed, Len(acc) - streamed)
           safe_len  == utf8_complete_len(remaining, Len(remaining))
       IN  IF safe_len > 0
           THEN <<TokenEv(streamed, substr(remaining, 0, safe_len),
                          "stop_flush", Len(acc))>>
           ELSE <<>>
  ELSE <<>>

\* the flush after the loop
FinalFlush(acc, streamed) ==
  IF Len(acc) > streamed
  THEN LET remaining == substr(acc, streamed, Len(acc) - streamed)
           safe_len  == utf8_complete_len(remaining, Len(remaining))
       IN  IF safe_len > 0
           THEN <<TokenEv(streamed, substr(remaining, 0, safe_len),
                          "final_flush", Len(acc))>>
           ELSE <<>>
  ELSE <<>>

SafeLenNoHoldBack(acc, streamed) ==
  IF Len(acc) > streamed
  THEN utf8_complete_len(substr(acc, streamed, Len(acc) - streamed),
                         Len(acc) - streamed)
  ELSE 0

\* the hold-back: the bytes that may be streamed after a token, 0 when none
SafeLen(acc, streamed) ==
  IF Len(acc) > streamed
  THEN LET safe_end == Len(acc) - max_stop_len
       IN  IF safe_end > streamed
           THEN LET chunk_len == safe_end - streamed
                IN  utf8_complete_len(substr(acc, streamed, chunk_len), chunk_len)
           ELSE 0
  ELSE 0

\* the signal that ends a call whose loop was left by break or exhaustion
ErrorAtEnd == ErrorEv("Generation ended")

EndSignal == CompleteEv

\* env->CallVoidMethod(g_stream_callback, ...): the calls reach the sink that
\* is registered; on a null reference the call is undefined, the build either
\* ignores it or aborts the process
UBOutcomes == {"ignored", "abort"}

Aborts(calls, ub) == calls # <<>> /\ ~g_stream_callback /\ ub = "abort"

Delivered(calls) ==
  /\ sinkLog' = IF g_stream_callback THEN sinkLog \o calls ELSE sinkLog
  /\ nullSinkCall' = (nullSinkCall \/ (calls # <<>> /\ ~g_stream_callback))
  /\ crashed' = FALSE

Abort ==
  /\ crashed' = TRUE
  /\ UNCHANGED <<session, nullSinkCall, args, script, stream, gen>>

\* entry to the sampler construction
generateStreaming(nTok, maxTokens, temperature) ==
  LET a == [nTok |-> nTok, maxTokens |-> maxTokens, temperature |-> temperature]
      failed(cause, msg) ==
        /\ s_pc' = "returned" /\ s_cause' = cause
        /\ sinkLog' = stream_error(<<>>, msg)
        /\ smpl' = "none" /\ batch' = "none"
  IN  /\ MayCall(a) /\ s_pc = "none"
      /\ UNCHANGED <<rest, g_adapter, heap>>
      /\ kv_cache' = IF no_model THEN kv_cache
                     ELSE llama_memory_clear(found(kv_cache))
      /\ engine_calls' = When(~no_model, <<"llama_memory_clear", "common_tokenize">>)
      /\ args' = a
      /\ idx' = 0 /\ pos' = 0 /\ i' = 0
      /\ accumulated' = <<>> /\ n_streamed_chars' = 0 /\ s_prefill' = <<>>
      /\ IF no_model
         THEN failed("no_model", "ERROR: Model not loaded")
         ELSE IF nTok = 0
         THEN failed("empty", "ERROR: Empty prompt after tokenization")
         ELSE IF prompt_too_long(nTok)
         THEN failed("too_long", "ERROR: Prompt too long for context")
         ELSE /\ s_pc' = "prefill" /\ s_cause' = "none"
              /\ sinkLog' = <<>>
              /\ smpl' = SamplerFor(temperature) /\ batch' = "allocated"
      /\ UNCHANGED <<session, faults, script, gen>>

\* the batch filled for tokens at..at+n-1 of a prompt of `size` tokens:
\* batch.pos[i] = pos + i, batch.logits[i] = (idx + i + 1 == tokens.size())
Chunk(at, n, p, size) ==
  [idx |-> at, n_tokens |-> n, pos |-> p,
   logits |-> {at + k : k \in {j \in 0..(n - 1) : at + j + 1 = size}}]

\* one iteration of the prefill loop
s_PrefillChunk(ok) ==
  /\ UNCHANGED <<rest, g_adapter, heap>>
  /\ kv_cache' = decoded_into(kv_cache)
  /\ engine_calls' = engine_calls \o When(idx = 0, <<"llama_decode">>)
  /\ ~crashed /\ s_pc = "prefill" /\ idx < args.nTok
  /\ s_prefill' = Append(s_prefill, Chunk(idx, take(args.nTok, idx), pos, args.nTok))
  /\ IF ~ok
     THEN /\ batch' = llama_batch_free(batch) /\ smpl' = llama_sampler_free(smpl)
          /\ sinkLog' = stream_error(sinkLog, "ERROR: Failed to decode prompt")
          /\ s_pc' = "returned" /\ s_cause' = "prefill_fail"
          /\ UNCHANGED <<idx, pos>>
     ELSE /\ pos' = pos + take(args.nTok, idx)
          /\ idx' = idx + take(args.nTok, idx)
          /\ IF idx' < args.nTok
             THEN UNCHANGED <<batch, s_pc>>
             ELSE batch' = llama_batch_free(batch) /\ s_pc' = "loop"
          /\ UNCHANGED <<smpl, sinkLog, s_cause>>
  /\ UNCHANGED <<session, faults, args, script, i, accumulated,
                 n_streamed_chars, gen>>

\* one iteration of the decode loop; its llama_decode adds to a memory that
\* holds the prompt of this call
s_Step ==
  /\ UNCHANGED <<rest, handles>>
  /\ ~crashed /\ s_pc = "loop" /\ i < max_gen(args.maxTokens)
  /\ \E e \in Engine(i), ub \in UBOutcomes :
       IF IsEog(e.tok)
       THEN /\ s_pc' = "flush" /\ s_cause' = "eog"
            /\ script' = Recorded(i, e, FALSE)
            /\ UNCHANGED <<session, faults, args, smpl, batch, idx, pos, i,
                           accumulated, n_streamed_chars, sinkLog, s_prefill, gen>>
       ELSE LET acc1 == accumulated \o Piece(e.tok)
            IN  IF FirstStop(acc1) # 0
                THEN LET acc2  == StripStop(acc1)
                         calls == StopFlush(acc2, n_streamed_chars)
                     IN  IF Aborts(calls, ub) THEN Abort
                         ELSE /\ Delivered(calls)
                              /\ accumulated' = acc2
                              /\ s_pc' = "flush" /\ s_cause' = "stop"
                              /\ script' = Recorded(i, e, FALSE)
                              /\ UNCHANGED <<session, args, smpl, batch, idx, pos,
                                             i, n_streamed_chars, s_prefill, gen>>
                ELSE LET safe_len == SafeLen(acc1, n_streamed_chars)
                         chunk == IF safe_len > 0
                                  THEN <<TokenEv(n_streamed_chars,
                                                 substr(acc1, n_streamed_chars, safe_len),
                                                 "loop", Len(acc1))>>
                                  ELSE <<>>
                         calls == IF e.ok THEN chunk
                                  ELSE Append(chunk, ErrorEv("Decode failed"))
                     IN  IF Aborts(calls, ub) THEN Abort
                         ELSE /\ Delivered(calls)
                              /\ accumulated' = acc1
                              /\ n_streamed_chars' = n_streamed_chars + safe_len
                              /\ script' = Recorded(i, e, TRUE)
                              /\ IF ~e.ok
                                 THEN /\ smpl' = llama_sampler_free(smpl)
                                      /\ s_pc' = "returned" /\ s_cause' = "decode_fail"
                                      /\ UNCHANGED i
                                 ELSE /\ i' = i + 1
                                      /\ s_pc' = IF i' < max_gen(args.maxTokens)
                                                 THEN "loop" ELSE "flush"
                                      /\ s_cause' = IF i' < max_gen(args.maxTokens)
                                                    THEN "none" ELSE "max"
                                      /\ UNCHANGED smpl
                              /\ UNCHANGED <<session, args, batch, idx, pos,
                                             s_prefill, gen>>

\* after the loop: the final flush, the sampler freed, onComplete
s_Finish ==
  /\ UNCHANGED <<rest, handles>>
  /\ ~crashed /\ s_pc = "flush"
  /\ \E ub \in UBOutcomes :
       LET calls == Append(FinalFlush(accumulated, n_streamed_chars), EndSignal)
       IN  IF Aborts(calls, ub) THEN Abort
           ELSE /\ Delivered(calls)
                /\ smpl' = llama_sampler_free(smpl)
                /\ s_pc' = "returned"
                /\ UNCHANGED <<session, args, script, s_cause, batch, idx, pos, i,
                               accumulated, n_streamed_chars, s_prefill, gen>>

(***************************************************************************)
(* generate                                                                *)
(***************************************************************************)
\* llama_batch_get_one(tokens.data(), tokens.size()): one batch of all n tokens,
\* no positions and no logits flags given, for which llama_decode takes the
\* positions that follow the (cleared) cache and gives logits for the last token
llama_batch_get_one(n) ==
  [idx |-> 0, n_tokens |-> n, pos |-> 0, logits |-> {n - 1}]

\* entry to the decode of the prompt, one batch holding all of it
generate(nTok, maxTokens, temperature, promptOk) ==
  LET a == [nTok |-> nTok, maxTokens |-> maxTokens, temperature |-> temperature]
      failed(cause, msg) ==
        /\ g_pc' = "returned" /\ g_cause' = cause
        /\ ret' = ErrorRet(msg) /\ g_smpl' = "none"
      submitted == <<llama_batch_get_one(nTok)>>
      loaded == ~no_model
      reached == loaded /\ nTok # 0 /\ ~prompt_too_long(nTok)
      cleared == llama_memory_clear(found(kv_cache))
  IN  /\ MayCall(a) /\ g_pc = "none"
      /\ UNCHANGED <<rest, g_adapter, heap>>
      /\ kv_cache' = IF ~loaded THEN kv_cache
                     ELSE IF reached THEN decoded_into(cleared) ELSE cleared
      /\ engine_calls' = When(loaded, <<"llama_memory_clear", "common_tokenize">>)
                  \o When(reached, <<"llama_decode">>)
      /\ args' = a
      /\ g_i' = 0 /\ result' = <<>>
      /\ IF no_model
         THEN failed("no_model", "ERROR: Model not loaded") /\ g_prefill' = <<>>
         ELSE IF nTok = 0
         THEN failed("empty", "ERROR: Empty prompt after tokenization")
              /\ g_prefill' = <<>>
         ELSE IF prompt_too_long(nTok)
         THEN failed("too_long", "ERROR: Prompt too long for context")
              /\ g_prefill' = <<>>
         ELSE IF ~promptOk
         THEN /\ g_pc' = "returned" /\ g_cause' = "prefill_fail"
              /\ ret' = ErrorRet("ERROR: Failed to decode prompt")
              /\ g_smpl' = llama_sampler_free(SamplerFor(temperature))
              /\ g_prefill' = submitted
         ELSE /\ g_pc' = "loop" /\ g_cause' = "none"
              /\ ret' = NoRet
              /\ g_smpl' = SamplerFor(temperature)
              /\ g_prefill' = submitted
      /\ UNCHANGED <<session, faults, script, stream>>

\* one iteration of the decode loop; its llama_decode adds to a memory that
\* holds the prompt of this call
g_Step ==
  /\ UNCHANGED <<rest, handles>>
  /\ ~crashed /\ g_pc = "loop" /\ g_i < max_gen(args.maxTokens)
  /\ \E e \in Engine(g_i) :
       IF IsEog(e.tok)
       THEN /\ g_pc' = "exit" /\ g_cause' = "eog"
            /\ script' = Recorded(g_i, e, FALSE)
            /\ UNCHANGED <<g_i, result>>
       ELSE LET res1 == result \o Piece(e.tok)
            IN  IF FirstStop(res1) # 0
                THEN /\ result' = StripStop(res1)
                     /\ g_pc' = "exit" /\ g_cause' = "stop"
                     /\ script' = Recorded(g_i, e, FALSE)
                     /\ UNCHANGED g_i
                ELSE /\ result' = res1
                     /\ script' = Recorded(g_i, e, TRUE)
                     /\ IF ~e.ok
                        THEN /\ g_pc' = "exit" /\ g_cause' = "decode_fail"
                             /\ UNCHANGED g_i
                        ELSE /\ g_i' = g_i + 1
                             /\ g_pc' = IF g_i' < max_gen(args.maxTokens)
                                        THEN "loop" ELSE "exit"
                             /\ g_cause' = IF g_i' < max_gen(args.maxTokens)
                                           THEN "none" ELSE "max"
  /\ UNCHANGED <<session, faults, args, stream, g_smpl, ret, g_prefill>>

\* after the loop: the sampler freed, the text returned
g_Return ==
  /\ UNCHANGED <<rest, handles>>
  /\ ~crashed /\ g_pc = "exit"
  /\ g_smpl' = llama_sampler_free(g_smpl)
  /\ ret' = TextRet(result)
  /\ g_pc' = "returned"
  /\ UNCHANGED <<session, faults, args, script, stream, g_cause, g_i, result,
                 g_prefill>>

(***************************************************************************)
(* Specification                                                           *)
(***************************************************************************)
Next ==
  \/ \E callback \in BOOLEAN : setStreamCallback(callback)
  \/ initLlamaBackend
  \/ \E nCtx \in CtxChoices, modelOk \in BOOLEAN, ctxOk \in BOOLEAN :
       loadModel(nCtx, modelOk, ctxOk)
  \/ cleanupLlama
  \/ Forget
  \/ \E nTok \in PromptSizes, maxTokens \in MaxTokensGiven,
        temperature \in TempsGiven :
       generateStreaming(nTok, maxTokens, temperature)
  \/ \E ok \in BOOLEAN : s_PrefillChunk(ok)
  \/ s_Step
  \/ s_Finish
  \/ \E nTok \in PromptSizes, maxTokens \in MaxTokensGiven,
        temperature \in TempsGiven, promptOk \in BOOLEAN :
       generate(nTok, maxTokens, temperature, promptOk)
  \/ g_Step
  \/ g_Return

Spec == Init /\ [][Next]_vars

\* the same session with callers that leave maxTokens at its default
InitLong == InitSession /\ longRun = TRUE /\ utf8_call = NoCall /\ TrainIdle /\ unit = "inference"

LongSpec == InitLong /\ [][Next]_vars

\* the thread inside a generation call keeps running
CallSteps ==
  \/ \E ok \in BOOLEAN : s_PrefillChunk(ok)
  \/ s_Step
  \/ s_Finish
  \/ g_Step
  \/ g_Return

LongFairSpec == LongSpec /\ WF_vars(CallSteps)

(***************************************************************************)
(* The training unit (lora/src/main/cpp/lora_train.cpp).  It is built as a  *)
(* library of its own, with its own g_model, g_context, g_backend_initialized *)
(* and no stream callback; the session variables stand for its globals in  *)
(* the training specifications, where the generation calls are not made.    *)
(* A training text is the tokens 1..L, so that a repetition can be told.    *)
(***************************************************************************)
\* what the training unit does not have or does not touch
inference == <<g_stream_callback, faults, args, script, stream, gen, longRun, utf8_call, unit,
               sinks>>

TrainCtxChoices == 1..MaxTrainCtx
TextSizes == 0..MaxText

Max(a, b) == IF a >= b THEN a ELSE b

\* int n_ctx_actual = (nCtx > 0) ? nCtx : 512
train_n_ctx_actual(nCtx) == IF nCtx > 0 THEN nCtx ELSE TrainDefaultCtx

too_short_empty(size) == size < 1

\* if ((int) tokens.size() < 2)
too_short(size) == size < 2

stride_whole(n) == Max(1, n)

\* int64_t stride = std::max((int64_t) 1, (int64_t) n_ctx / 2)
stride_of(n) == Max(1, n \div 2)

\* size_t min_tokens = (size_t)(n_ctx + 1 + stride)
min_tokens(n, stride) == n + 1 + stride

\* padding that stops at the minimum length, inside a repetition
pad_cut(tokens, original, least) ==
  [j \in 1..Max(least, Len(original)) |-> original[((j - 1) % Len(original)) + 1]]

\* while (tokens.size() < min_tokens) tokens.insert(tokens.end(), original...)
RECURSIVE pad_whole(_, _, _)
pad_whole(tokens, original, least) ==
  IF Len(tokens) < least THEN pad_whole(tokens \o original, original, least)
  ELSE tokens

\* common_opt_dataset_init and ggml_opt_dataset_ndata: windows of
\* ne_datapoint + 1 tokens at multiples of the stride, as many as lie inside
\* the tokens
common_opt_dataset_init(ne_datapoint, tokens, stride) ==
  [ne_datapoint |-> ne_datapoint,
   ndata |-> ((Len(tokens) - (ne_datapoint + 1)) \div stride) + 1]

train_initLlamaBackend ==
  /\ g_backend_initialized' = TRUE
  /\ t_ret' = [NoTrainRet EXCEPT !.op = "initLlamaBackend", !.kind = "ok"]
  /\ epoch' = NoEpoch
  /\ engine_calls' = <<"llama_backend_init">>
  /\ UNCHANGED <<g_model, g_context, n_ctx, g_dataset, built, opt_initialized,
                 g_adapter, heap, kv_cache, inference>>

train_setLogCallback(callback) ==
  /\ RegisterLogSink(callback)
  /\ t_ret' = [NoTrainRet EXCEPT !.op = "setLogCallback", !.kind = "ok"]
  /\ epoch' = NoEpoch
  /\ engine_calls' = <<>>
  /\ UNCHANGED <<g_backend_initialized, g_model, g_context, n_ctx, g_dataset, built,
                 opt_initialized, g_adapter, heap, kv_cache, g_stream_callback,
                 faults, args, script, stream, gen, longRun, utf8_call, unit>>

\* the model and context are replaced; the dataset handle is left as it is
train_loadModel(nCtx, modelOk, ctxOk) ==
  /\ IF ~g_backend_initialized
     THEN /\ t_ret' = [NoTrainRet EXCEPT !.op = "loadModel", !.kind = "error",
                                         !.msg = "ERROR: Backend not initialized"]
          /\ UNCHANGED <<g_model, g_context, n_ctx, opt_initialized, g_adapter,
                         heap, kv_cache>>
          /\ engine_calls' = <<>>
     ELSE /\ g_model' = model_after(modelOk, ctxOk)
          /\ g_context' = (modelOk /\ ctxOk)
          /\ n_ctx' = IF modelOk /\ ctxOk THEN train_n_ctx_actual(nCtx) ELSE 0
          /\ heap' = ReplaceModel(modelOk, ctxOk).heap
          /\ engine_calls' = ReplaceModel(modelOk, ctxOk).engine_calls
          /\ g_adapter' = orphaned(g_adapter)
          /\ kv_cache' = "empty"
          /\ opt_initialized' = FALSE
          /\ t_ret' = [NoTrainRet EXCEPT
                         !.op = "loadModel",
                         !.kind = IF modelOk /\ ctxOk THEN "ok" ELSE "error",
                         !.msg = IF ~modelOk THEN "ERROR: Failed to load model"
                                 ELSE IF ~ctxOk THEN "ERROR: Failed to create context"
                                 ELSE ""]
  /\ epoch' = NoEpoch
  /\ UNCHANGED <<g_backend_initialized, g_dataset, built, inference>>

\* size: the number of tokens common_tokenize gives for the training text
setTrainingData(size) ==
  LET original == [j \in 1..size |-> j]
      stride   == stride_of(n_ctx)
      tokens   == pad_whole(original, original, min_tokens(n_ctx, stride))
      dataset  == common_opt_dataset_init(n_ctx, tokens, stride)
      freed    == IF g_dataset # NoDataset THEN ggml_opt_dataset_free(heap) ELSE heap
      frees    == When(g_dataset # NoDataset, <<"ggml_opt_dataset_free">>)
  IN  /\ IF ~g_context
         THEN /\ t_ret' = [NoTrainRet EXCEPT !.op = "setTrainingData", !.kind = "error",
                                             !.msg = "ERROR: Context not initialized"]
              /\ UNCHANGED <<g_dataset, built, heap>>
              /\ engine_calls' = <<>>
         ELSE IF too_short(size)
         THEN /\ g_dataset' = NoDataset
              /\ heap' = freed
              /\ engine_calls' = frees \o <<"common_tokenize">>
              /\ t_ret' = [NoTrainRet EXCEPT !.op = "setTrainingData", !.kind = "error",
                                             !.msg = "ERROR: Training text too short",
                                             !.size = size]
              /\ UNCHANGED built
         ELSE /\ g_dataset' = dataset
              /\ heap' = dataset_new(freed)
              /\ engine_calls' = frees \o <<"common_tokenize", "common_opt_dataset_init">>
              /\ built' = [n_ctx |-> n_ctx, stride |-> stride, tokens |-> tokens]
              /\ t_ret' = [NoTrainRet EXCEPT !.op = "setTrainingData", !.kind = "data",
                                             !.size = size, !.ndata = dataset.ndata]
      /\ epoch' = NoEpoch
      /\ UNCHANGED <<g_backend_initialized, g_model, g_context, n_ctx,
                     opt_initialized, g_adapter, kv_cache, inference>>

idata_split_all(ndata) == ndata

idata_split_ninety(ndata) ==
  IF ndata >= 2
  THEN LET split == Max(1, (ndata * 90) \div 100)
       IN  IF split >= ndata THEN ndata - 1 ELSE split
  ELSE ndata

\* the train/eval split of trainEpoch
idata_split(ndata) ==
  IF ndata >= 2
  THEN LET split == Max(1, (ndata * 95) \div 100)
       IN  IF split >= ndata THEN ndata - 1 ELSE split
  ELSE ndata

\* bool has_eval
has_eval(ndata) == ndata >= 2

trainEpoch ==
  /\ IF ~g_context \/ g_dataset = NoDataset
     THEN /\ t_ret' = [NoTrainRet EXCEPT !.op = "trainEpoch", !.kind = "error",
                                         !.msg = "ERROR: Training not initialized"]
          /\ UNCHANGED epoch
          /\ engine_calls' = <<>>
     ELSE /\ engine_calls' = <<"ggml_opt_dataset_ndata", "llama_opt_epoch">>
          /\ epoch' = [ndata |-> g_dataset.ndata,
                       idata_split |-> idata_split(g_dataset.ndata),
                       has_eval |-> has_eval(g_dataset.ndata),
                       result_eval |-> has_eval(g_dataset.ndata),
                       callback_eval |-> has_eval(g_dataset.ndata)]
          /\ t_ret' = [NoTrainRet EXCEPT !.op = "trainEpoch", !.kind = "epoch",
                                         !.ndata = g_dataset.ndata]
  /\ UNCHANGED <<g_backend_initialized, g_model, g_context, n_ctx, g_dataset,
                 built, opt_initialized, g_adapter, heap, kv_cache, inference>>

train_cleanupLlama ==
  LET freed == IF g_dataset # NoDataset THEN ggml_opt_dataset_free(heap) ELSE heap
  IN  /\ g_dataset' = NoDataset
      /\ heap' = ReleaseAll(freed).heap
      /\ engine_calls' = When(g_dataset # NoDataset, <<"ggml_opt_dataset_free">>)
                  \o ReleaseAll(freed).engine_calls
      /\ g_adapter' = NoAdapter /\ kv_cache' = "empty"
      /\ opt_initialized' = FALSE
      /\ g_context' = FALSE /\ g_model' = FALSE /\ n_ctx' = 0
      /\ g_backend_initialized' = FALSE
      /\ t_ret' = [NoTrainRet EXCEPT !.op = "cleanupLlama", !.kind = "ok"]
      /\ epoch' = NoEpoch
      /\ ReleaseLogSink
      /\ UNCHANGED <<built, g_stream_callback, faults, args, script, stream, gen,
                     longRun, utf8_call, unit>>

\* what an adapter operation returns and leaves
AdapterOp(op, makeOk, applyOk, maker, makeMsg, applyMsg) ==
  /\ IF no_model
     THEN /\ t_ret' = [NoTrainRet EXCEPT !.op = op, !.kind = "error",
                                         !.msg = "ERROR: Model not loaded"]
          /\ UNCHANGED <<g_adapter, heap>>
          /\ engine_calls' = <<>>
     ELSE /\ heap' = ReplaceAdapter(makeOk, applyOk, maker).heap
          /\ g_adapter' = ReplaceAdapter(makeOk, applyOk, maker).g_adapter
          /\ engine_calls' = ReplaceAdapter(makeOk, applyOk, maker).engine_calls
          /\ t_ret' = [NoTrainRet EXCEPT
                         !.op = op,
                         !.kind = IF makeOk /\ applyOk THEN "ok" ELSE "error",
                         !.msg = IF ~makeOk THEN makeMsg
                                 ELSE IF ~applyOk THEN applyMsg ELSE ""]
  /\ epoch' = NoEpoch
  /\ UNCHANGED <<g_backend_initialized, g_model, g_context, n_ctx, g_dataset,
                 built, opt_initialized, kv_cache, inference>>

createLoraAdapter(createOk, applyOk) ==
  AdapterOp("createLoraAdapter", createOk, applyOk, "llama_adapter_lora_create",
            "ERROR: Failed to create LoRA adapter",
            "ERROR: Failed to apply LoRA adapter")

train_loadLoraAdapter(loadOk, applyOk) ==
  AdapterOp("loadLoraAdapter", loadOk, applyOk, "llama_adapter_lora_init",
            "ERROR: Failed to load LoRA adapter",
            "ERROR: Failed to apply loaded LoRA adapter")

\* if (g_adapter && g_context) { remove, free, null }
train_removeLoraAdapter ==
  /\ IF g_adapter.held /\ g_context
     THEN /\ heap' = llama_adapter_lora_free(llama_rm_adapter_lora(heap, g_adapter))
          /\ g_adapter' = NoAdapter
          /\ engine_calls' = <<"llama_rm_adapter_lora", "llama_adapter_lora_free">>
     ELSE /\ UNCHANGED <<g_adapter, heap>>
          /\ engine_calls' = <<>>
  /\ t_ret' = [NoTrainRet EXCEPT !.op = "removeLoraAdapter", !.kind = "ok"]
  /\ epoch' = NoEpoch
  /\ UNCHANGED <<g_backend_initialized, g_model, g_context, n_ctx, g_dataset,
                 built, opt_initialized, kv_cache, inference>>

initTraining ==
  /\ IF ~g_context \/ ~g_model \/ ~g_adapter.held
     THEN /\ t_ret' = [NoTrainRet EXCEPT
                         !.op = "initTraining", !.kind = "error",
                         !.msg = "ERROR: Model, context, or adapter not ready"]
          /\ UNCHANGED opt_initialized
          /\ engine_calls' = <<>>
     ELSE /\ opt_initialized' = TRUE
          /\ engine_calls' = <<"llama_opt_init">>
          /\ t_ret' = [NoTrainRet EXCEPT !.op = "initTraining", !.kind = "ok"]
  /\ epoch' = NoEpoch
  /\ UNCHANGED <<g_backend_initialized, g_model, g_context, n_ctx, g_dataset,
                 built, g_adapter, heap, kv_cache, inference>>

TrainNext ==
  \/ train_initLlamaBackend
  \/ \E nCtx \in TrainCtxChoices, modelOk \in BOOLEAN, ctxOk \in BOOLEAN :
       train_loadModel(nCtx, modelOk, ctxOk)
  \/ \E size \in TextSizes : setTrainingData(size)
  \/ trainEpoch
  \/ train_cleanupLlama

TrainInit == InitSession /\ longRun = FALSE /\ utf8_call = NoCall /\ TrainIdle /\ unit = "training"

TrainSpec == TrainInit /\ [][TrainNext]_vars

(***************************************************************************)
(* The sessions of both units with their adapters, optimizer and dataset,   *)
(* on one context size, on texts around the shortest that is accepted and   *)
(* on prompts around the longest that is accepted.  The process has loaded  *)
(* one of the two libraries and calls the operations of that one.           *)
(***************************************************************************)
SessionCtxChoices == {MaxTrainCtx}
SessionTextSizes == {1, 2}
SessionPromptSizes == {0, 513}
SessionMaxTokens == {1}
SessionTemps == {0}

InferenceUnit == unit = "inference"
TrainingUnit == unit = "training"

SessionInit ==
  /\ InitSession /\ longRun = FALSE /\ utf8_call = NoCall /\ TrainIdle
  /\ unit \in {"inference", "training"}

SessionNext ==
  \/ InferenceUnit /\ initLlamaBackend
  \/ InferenceUnit /\ \E nCtx \in CtxChoices, modelOk \in BOOLEAN, ctxOk \in BOOLEAN :
                         loadModel(nCtx, modelOk, ctxOk)
  \/ InferenceUnit /\ \E loadOk \in BOOLEAN, applyOk \in BOOLEAN :
                         loadLoraAdapter(loadOk, applyOk)
  \/ InferenceUnit /\ removeLoraAdapter
  \/ InferenceUnit /\ \E callback \in BOOLEAN : setStreamCallback(callback)
  \/ InferenceUnit /\ \E callback \in BOOLEAN : setLogCallback(callback)
  \/ InferenceUnit /\ \E nTok \in SessionPromptSizes, maxTokens \in SessionMaxTokens,
                          temperature \in SessionTemps :
                         generateStreaming(nTok, maxTokens, temperature)
  \/ InferenceUnit /\ \E ok \in BOOLEAN : s_PrefillChunk(ok)
  \/ InferenceUnit /\ s_Step
  \/ InferenceUnit /\ s_Finish
  \/ InferenceUnit /\ \E nTok \in SessionPromptSizes, maxTokens \in SessionMaxTokens,
                          temperature \in SessionTemps, promptOk \in BOOLEAN :
                         generate(nTok, maxTokens, temperature, promptOk)
  \/ InferenceUnit /\ g_Step
  \/ InferenceUnit /\ g_Return
  \/ InferenceUnit /\ cleanupLlama
  \/ TrainingUnit /\ train_initLlamaBackend
  \/ TrainingUnit /\ \E callback \in BOOLEAN : train_setLogCallback(callback)
  \/ TrainingUnit /\ \E nCtx \in SessionCtxChoices, modelOk \in BOOLEAN, ctxOk \in BOOLEAN :
                        train_loadModel(nCtx, modelOk, ctxOk)
  \/ TrainingUnit /\ \E createOk \in BOOLEAN, applyOk \in BOOLEAN :
                        createLoraAdapter(createOk, applyOk)
  \/ TrainingUnit /\ \E loadOk \in BOOLEAN, applyOk \in BOOLEAN :
                        train_loadLoraAdapter(loadOk, applyOk)
  \/ TrainingUnit /\ train_removeLoraAdapter
  \/ TrainingUnit /\ \E size \in SessionTextSizes : setTrainingData(size)
  \/ TrainingUnit /\ initTraining
  \/ TrainingUnit /\ trainEpoch
  \/ TrainingUnit /\ train_cleanupLlama

SessionSpec == SessionInit /\ [][SessionNext]_vars

\* a training session that holds a dataset of any size the engine may report
EpochInit ==
  /\ InitSession /\ longRun = FALSE /\ utf8_call = NoCall /\ unit = "training"
  /\ built = NoBuild /\ t_ret = NoTrainRet /\ epoch = NoEpoch
  /\ opt_initialized = FALSE
  /\ g_adapter = NoAdapter /\ heap = [NoHeap EXCEPT !.dataset = 1]
  /\ kv_cache = "empty" /\ engine_calls = <<>>
  /\ \E d \in 1..MaxNdata : g_dataset = [ne_datapoint |-> 0, ndata |-> d]

EpochSpec == EpochInit /\ [][TrainNext]_vars

(***************************************************************************)
(* The sinks under concurrent callers (lora_inference.cpp).  A sink         *)
(* operation is split where another thread can run in between: at the lock, *)
(* between the read of the global and the JNI call through what was read,   *)
(* between DeleteGlobalRef and NewGlobalRef.  A reference a thread has read  *)
(* is live until a DeleteGlobalRef of the global it was read from.           *)
(***************************************************************************)
\* what the sink operations do not touch
quiet == <<g_backend_initialized, g_model, g_context, n_ctx, faults, args, script,
           stream, gen, longRun, utf8_call, train, unit, handles>>

lock_ignored(mutex) == TRUE

\* std::lock_guard<std::mutex> lock(...): the constructor returns when the
\* mutex is free
lockable(mutex) == mutex = "none"

\* DeleteGlobalRef of a global: the threads that have read it for a call, in
\* one of the places `at`, now hold a deleted reference
Deleted(at) ==
  [t \in Threads |-> IF t_pc[t] \in at /\ t_hold[t] = "live" THEN "deleted"
                     ELSE t_hold[t]]

Goto(t, pc) == t_pc' = [t_pc EXCEPT ![t] = pc]
Hold(t, ref) == t_hold' = [t_hold EXCEPT ![t] = ref]

\* ui_log: the lock is taken
ui_log_Lock(t) ==
  /\ t_pc[t] = "idle"
  /\ lockable(g_log_mutex)
  /\ g_log_mutex' = t /\ Goto(t, "log_locked")
  /\ UNCHANGED <<g_stream_callback, g_log_callback, log_refs, g_stream_mutex,
                 t_hold, t_arg, invoked, quiet>>

\* if (!g_jvm || !g_log_callback || !g_on_log) return; else the reference is
\* read for CallVoidMethod
ui_log_Check(t) ==
  /\ t_pc[t] = "log_locked"
  /\ IF ~g_log_callback
     THEN /\ g_log_mutex' = "none" /\ Goto(t, "idle") /\ UNCHANGED t_hold
     ELSE /\ Hold(t, "live") /\ Goto(t, "log_call") /\ UNCHANGED g_log_mutex
  /\ UNCHANGED <<g_stream_callback, g_log_callback, log_refs, g_stream_mutex,
                 t_arg, invoked, quiet>>

\* env->CallVoidMethod(g_log_callback, g_on_log, jmsg), then the lock released
ui_log_Call(t) ==
  /\ t_pc[t] = "log_call"
  /\ invoked' = [invoked EXCEPT !.log = t_hold[t]]
  /\ g_log_mutex' = "none" /\ Goto(t, "idle") /\ Hold(t, "none")
  /\ UNCHANGED <<g_stream_callback, g_log_callback, log_refs, g_stream_mutex,
                 t_arg, quiet>>

\* setLogCallback: the lock is taken
setLogCallback_Lock(callback) ==
  /\ t_pc["ctl"] = "idle"
  /\ lockable(g_log_mutex)
  /\ g_log_mutex' = "ctl" /\ Goto("ctl", "set_log") /\ t_arg' = callback
  /\ UNCHANGED <<g_stream_callback, g_log_callback, log_refs, g_stream_mutex,
                 t_hold, invoked, quiet>>

\* if (g_log_callback) { DeleteGlobalRef; g_log_callback = nullptr; }
setLogCallback_Release ==
  /\ t_pc["ctl"] = "set_log"
  /\ IF g_log_callback
     THEN /\ g_log_callback' = FALSE /\ log_refs' = log_refs - 1
          /\ t_hold' = Deleted({"log_call"})
     ELSE UNCHANGED <<g_log_callback, log_refs, t_hold>>
  /\ Goto("ctl", "set_log_new")
  /\ UNCHANGED <<g_stream_callback, g_log_mutex, g_stream_mutex, t_arg, invoked,
                 quiet>>

\* if (callback) { g_log_callback = NewGlobalRef(callback); ... }, then the
\* lock released
setLogCallback_New ==
  /\ t_pc["ctl"] = "set_log_new"
  /\ IF t_arg
     THEN g_log_callback' = TRUE /\ log_refs' = log_refs + 1
     ELSE UNCHANGED <<g_log_callback, log_refs>>
  /\ g_log_mutex' = "none" /\ Goto("ctl", "idle") /\ t_arg' = FALSE
  /\ UNCHANGED <<g_stream_callback, g_stream_mutex, t_hold, invoked, quiet>>

\* setStreamCallback: the lock is taken
setStreamCallback_Lock(callback) ==
  /\ t_pc["ctl"] = "idle"
  /\ lockable(g_stream_mutex)
  /\ g_stream_mutex' = "ctl" /\ Goto("ctl", "set_stream") /\ t_arg' = callback
  /\ UNCHANGED <<g_stream_callback, g_log_callback, log_refs, g_log_mutex,
                 t_hold, invoked, quiet>>

\* if (g_stream_callback) { DeleteGlobalRef; g_stream_callback = nullptr; }
setStreamCallback_Release ==
  /\ t_pc["ctl"] = "set_stream"
  /\ IF g_stream_callback
     THEN /\ g_stream_callback' = FALSE
          /\ t_hold' = Deleted({"stream_call", "error_call"})
     ELSE UNCHANGED <<g_stream_callback, t_hold>>
  /\ Goto("ctl", "set_stream_new")
  /\ UNCHANGED <<g_log_callback, log_refs, g_log_mutex, g_stream_mutex, t_arg,
                 invoked, quiet>>

\* if (callback) { g_stream_callback = NewGlobalRef(callback); ... }, then the
\* lock released
setStreamCallback_New ==
  /\ t_pc["ctl"] = "set_stream_new"
  /\ g_stream_callback' = t_arg
  /\ g_stream_mutex' = "none" /\ Goto("ctl", "idle") /\ t_arg' = FALSE
  /\ UNCHANGED <<g_log_callback, log_refs, g_log_mutex, t_hold, invoked, quiet>>

\* cleanupLlama, its release of the callbacks: the log lock is taken
cleanup_LogLock ==
  /\ t_pc["ctl"] = "idle"
  /\ lockable(g_log_mutex)
  /\ g_log_mutex' = "ctl" /\ Goto("ctl", "clean_log")
  /\ UNCHANGED <<g_stream_callback, g_log_callback, log_refs, g_stream_mutex,
                 t_hold, t_arg, invoked, quiet>>

\* if (g_log_callback && env) { DeleteGlobalRef; null }, the lock released
cleanup_LogRelease ==
  /\ t_pc["ctl"] = "clean_log"
  /\ IF g_log_callback
     THEN /\ g_log_callback' = FALSE /\ log_refs' = log_refs - 1
          /\ t_hold' = Deleted({"log_call"})
     ELSE UNCHANGED <<g_log_callback, log_refs, t_hold>>
  /\ g_log_mutex' = "none" /\ Goto("ctl", "clean_stream_wait")
  /\ UNCHANGED <<g_stream_callback, g_stream_mutex, t_arg, invoked, quiet>>

\* the stream lock is taken
cleanup_StreamLock ==
  /\ t_pc["ctl"] = "clean_stream_wait"
  /\ lockable(g_stream_mutex)
  /\ g_stream_mutex' = "ctl" /\ Goto("ctl", "clean_stream")
  /\ UNCHANGED <<g_stream_callback, g_log_callback, log_refs, g_log_mutex,
                 t_hold, t_arg, invoked, quiet>>

\* if (g_stream_callback && env) { DeleteGlobalRef; null }, the lock released
cleanup_StreamRelease ==
  /\ t_pc["ctl"] = "clean_stream"
  /\ IF g_stream_callback
     THEN /\ g_stream_callback' = FALSE
          /\ t_hold' = Deleted({"stream_call", "error_call"})
     ELSE UNCHANGED <<g_stream_callback, t_hold>>
  /\ g_stream_mutex' = "none" /\ Goto("ctl", "idle")
  /\ UNCHANGED <<g_log_callback, log_refs, g_log_mutex, t_arg, invoked, quiet>>

\* the generation loop: g_stream_callback is read as the argument of
\* env->CallVoidMethod(g_stream_callback, g_on_token / g_on_error /
\* g_on_complete, ...), with no lock taken
stream_Read ==
  /\ t_pc["gen"] = "idle"
  /\ Hold("gen", IF g_stream_callback THEN "live" ELSE "null")
  /\ Goto("gen", "stream_call")
  /\ UNCHANGED <<g_stream_callback, g_log_callback, log_refs, g_log_mutex,
                 g_stream_mutex, t_arg, invoked, quiet>>

\* the JNI call through what was read
stream_Call ==
  /\ t_pc["gen"] = "stream_call"
  /\ invoked' = [invoked EXCEPT !.stream = t_hold["gen"]]
  /\ Goto("gen", "idle") /\ Hold("gen", "none")
  /\ UNCHANGED <<g_stream_callback, g_log_callback, log_refs, g_log_mutex,
                 g_stream_mutex, t_arg, quiet>>

\* stream_error: the lock is taken
stream_error_Lock ==
  /\ t_pc["gen"] = "idle"
  /\ lockable(g_stream_mutex)
  /\ g_stream_mutex' = "gen" /\ Goto("gen", "error_locked")
  /\ UNCHANGED <<g_stream_callback, g_log_callback, log_refs, g_log_mutex,
                 t_hold, t_arg, invoked, quiet>>

\* if (!g_jvm || !g_stream_callback || !g_on_error) return; else the
\* reference is read for CallVoidMethod
stream_error_Check ==
  /\ t_pc["gen"] = "error_locked"
  /\ IF ~g_stream_callback
     THEN /\ g_stream_mutex' = "none" /\ Goto("gen", "idle") /\ UNCHANGED t_hold
     ELSE /\ Hold("gen", "live") /\ Goto("gen", "error_call")
          /\ UNCHANGED g_stream_mutex
  /\ UNCHANGED <<g_stream_callback, g_log_callback, log_refs, g_log_mutex,
                 t_arg, invoked, quiet>>

\* env->CallVoidMethod(g_stream_callback, g_on_error, jerror), then the lock
\* released
stream_error_Call ==
  /\ t_pc["gen"] = "error_call"
  /\ invoked' = [invoked EXCEPT !.stream = t_hold["gen"]]
  /\ g_stream_mutex' = "none" /\ Goto("gen", "idle") /\ Hold("gen", "none")
  /\ UNCHANGED <<g_stream_callback, g_log_callback, log_refs, g_log_mutex,
                 t_arg, quiet>>

SinkNext ==
  \/ \E t \in Threads : ui_log_Lock(t)
  \/ \E t \in Threads : ui_log_Check(t)
  \/ \E t \in Threads : ui_log_Call(t)
  \/ \E callback \in BOOLEAN : setLogCallback_Lock(callback)
  \/ setLogCallback_Release
  \/ setLogCallback_New
  \/ \E callback \in BOOLEAN : setStreamCallback_Lock(callback)
  \/ setStreamCallback_Release
  \/ setStreamCallback_New
  \/ cleanup_LogLock
  \/ cleanup_LogRelease
  \/ cleanup_StreamLock
  \/ cleanup_StreamRelease
  \/ stream_Read
  \/ stream_Call
  \/ stream_error_Lock
  \/ stream_error_Check
  \/ stream_error_Call

SinkSpec == Init /\ [][SinkNext]_vars

(***************************************************************************)
(* What the claims speak of                                                *)
(***************************************************************************)
\* the onToken calls the sink received, in order
TokenEvents == SelectSeq(sinkLog, LAMBDA e : e.type = "token")

\* the onComplete and onError calls the sink received, in order
Terminals == SelectSeq(sinkLog, LAMBDA e : e.type # "token")

RECURSIVE Joined(_)
Joined(evs) == IF evs = <<>> THEN <<>> ELSE Head(evs).bytes \o Joined(Tail(evs))

\* the concatenation of the chunks passed to onToken
Streamed == Joined(TokenEvents)

\* the fragments of the first n sampled tokens, concatenated, nothing removed
RECURSIVE Fragments(_)
Fragments(n) ==
  IF n = 0 THEN <<>>
  ELSE Fragments(n - 1) \o (IF IsEog(script[n].tok) THEN <<>> ELSE Piece(script[n].tok))

\* s from byte k (counted from 0) on is whole characters; with `open`, the last
\* character may be cut short
RECURSIVE Utf8From(_, _, _)
Utf8From(s, k, open) ==
  IF k >= Len(s) THEN TRUE
  ELSE LET n == Expected(s[k + 1])
       IN  /\ n # 0
           /\ \A j \in (k + 2)..(IF k + n < Len(s) THEN k + n ELSE Len(s)) : IsCont(s[j])
           /\ IF k + n <= Len(s) THEN Utf8From(s, k + n, open) ELSE open

\* s is whole characters
Utf8Whole(s) == Utf8From(s, 0, FALSE)

\* s is the beginning of a text of whole characters
Utf8Prefix(s) == Utf8From(s, 0, TRUE)

\* some stop string occurs in s
ContainsStop(s) ==
  \E k \in 1..Len(stop_strs) : \E at \in 0..(Len(s) - Len(stop_strs[k])) :
    substr(s, at, Len(stop_strs[k])) = stop_strs[k]

\* s ends with a non-empty proper prefix of some stop string
EndsWithStopPrefix(s) ==
  \E k \in 1..Len(stop_strs) : \E n \in 1..(Len(stop_strs[k]) - 1) :
    /\ n <= Len(s)
    /\ substr(s, Len(s) - n, n) = substr(stop_strs[k], 0, n)

LoopCauses == {"eog", "stop", "max", "decode_fail"}
SuccessCauses == {"eog", "stop", "max"}
ErrorCauses == {"no_model", "empty", "too_long", "prefill_fail", "decode_fail"}

\* a streaming call has returned to a caller whose sink is registered
StreamReturned == s_pc = "returned" /\ g_stream_callback

(***************************************************************************)
(* Claims                                                                  *)
(***************************************************************************)
\* C1: when a streaming generation ends by end-of-generation token, stop
\* match or maxTokens exhaustion, the chunks passed to onToken, concatenated
\* in order, are the final accumulated text (after stop truncation).  Stated
\* on the runs whose final text ends on a character boundary: on the others
\* the final flush trims the cut character.
C1_ChunkConcatenation ==
  (StreamReturned /\ s_cause \in SuccessCauses /\ Utf8Whole(accumulated))
    => Streamed = accumulated

\* C2: each chunk passed to onToken starts where the previous one ended, the
\* first at byte 0: no byte is passed twice, on every termination path.
C2_ChunksContiguous ==
  g_stream_callback =>
    \A k \in 1..Len(TokenEvents) :
      TokenEvents[k].off = Len(Joined(SubSeq(TokenEvents, 1, k - 1)))

\* C3: when a stop string matches as a suffix of the accumulated text, no
\* chunk passed to onToken, before the match or after it, holds a byte of the
\* matched stop string: every chunk lies in the text before the match.
C3_StopNeverSurfaced ==
  (g_stream_callback /\ s_cause = "stop") =>
    LET full  == Fragments(Len(script))
        start == Len(full) - Len(stop_strs[FirstStop(full)])
    IN  /\ FirstStop(full) # 0
        /\ \A k \in 1..Len(TokenEvents) :
             LET e == TokenEvents[k]
             IN  /\ e.off + Len(e.bytes) <= start
                 /\ e.bytes = substr(full, e.off, Len(e.bytes))

C3_Witness ==
  /\ g_stream_callback /\ s_cause = "stop" /\ s_pc = "returned"
  /\ \E k \in 1..Len(TokenEvents) : TokenEvents[k].src = "loop"
  /\ \E k \in 1..Len(TokenEvents) : TokenEvents[k].src = "final_flush"

\* C4 as stated: no chunk passed to onToken is or contains a stop string, or
\* ends with a non-empty proper prefix of one, the final flush included.
C4_NoStopTextInChunks ==
  g_stream_callback =>
    \A k \in 1..Len(TokenEvents) :
      /\ ~ContainsStop(TokenEvents[k].bytes)
      /\ ~EndsWithStopPrefix(TokenEvents[k].bytes)

\* C4 amended: every chunk passed to onToken inside the decode loop ends at
\* least the length of the longest stop string before the end of the text
\* accumulated when it is passed, so it holds no byte of a stop string that a
\* later token can complete as a suffix.
C4_LoopChunksHeldBack ==
  g_stream_callback =>
    \A k \in 1..Len(TokenEvents) :
      TokenEvents[k].src = "loop" =>
        \A n \in 1..Len(stop_strs) :
          TokenEvents[k].off + Len(TokenEvents[k].bytes) + Len(stop_strs[n])
            <= TokenEvents[k].accLen

C4_Witness ==
  /\ g_stream_callback /\ s_pc = "returned" /\ s_cause = "max"
  /\ \E k \in 1..Len(TokenEvents) :
       /\ TokenEvents[k].src = "loop"
       /\ TokenEvents[k].off + Len(TokenEvents[k].bytes) + max_stop_len
            = TokenEvents[k].accLen
  /\ EndsWithStopPrefix(TokenEvents[Len(TokenEvents)].bytes)

\* C5: the final text of a generation, returned by generate or streamed by
\* generateStreaming, does not end with a stop string, whatever ended it.
C5_NoStopSuffix ==
  /\ (g_pc = "returned" /\ ret.kind = "text") => FirstStop(ret.bytes) = 0
  /\ (StreamReturned /\ s_cause \in LoopCauses) => FirstStop(Streamed) = 0

\* C6: when the fragments concatenate to UTF-8 text (a fragment may end inside
\* a character), every chunk passed to onToken starts and ends on a character
\* boundary: it is whole characters.
C6_ChunksWholeCharacters ==
  (g_stream_callback /\ Utf8Prefix(accumulated)) =>
    \A k \in 1..Len(TokenEvents) :
      LET e == TokenEvents[k]
      IN  /\ Utf8Whole(e.bytes)
          /\ e.off < Len(accumulated) => ~IsCont(accumulated[e.off + 1])

C6_Witness ==
  /\ g_stream_callback /\ Utf8Prefix(accumulated)
  /\ \E k \in 1..Len(TokenEvents) :
       /\ TokenEvents[k].src = "loop"
       /\ TokenEvents[k].off + Len(TokenEvents[k].bytes) + max_stop_len
            < TokenEvents[k].accLen
  /\ \E k \in 1..Len(TokenEvents) :
       /\ TokenEvents[k].src = "final_flush"
       /\ \E j \in 1..Len(TokenEvents[k].bytes) : IsCont(TokenEvents[k].bytes[j])

\* C7: with a sink registered, a generateStreaming call that has returned has
\* signalled exactly one of onComplete and onError, as the last call to the
\* sink; a call that has not returned has signalled neither.
C7_OneTerminalSignal ==
  g_stream_callback =>
    /\ s_pc = "returned" =>
         /\ Len(Terminals) = 1
         /\ sinkLog[Len(sinkLog)].type # "token"
    /\ s_pc \in {"prefill", "loop", "flush"} => Len(Terminals) = 0

C7_Witness ==
  /\ StreamReturned /\ s_cause = "decode_fail"
  /\ Len(TokenEvents) >= 2
  /\ sinkLog[Len(sinkLog)].type = "error"

\* C8: when a decode failure inside the decode loop ends a streaming
\* generation, the chunks passed to onToken before onError concatenate to the
\* accumulated text (up to its last whole character).
C8_FlushBeforeError ==
  (StreamReturned /\ s_cause = "decode_fail") =>
    Streamed = substr(accumulated, 0,
                      utf8_complete_len(accumulated, Len(accumulated)))

\* C9: on the same prompt, maxTokens, sampled tokens and decode results, with
\* temperature <= 0, the chunks streamed by generateStreaming concatenate to
\* the string generate returns.  Stated on the runs where both calls end in
\* success and the text ends on a character boundary.
C9_ModesAgree ==
  (/\ StreamReturned /\ s_cause \in SuccessCauses
   /\ g_pc = "returned" /\ g_cause \in SuccessCauses
   /\ args.temperature <= 0
   /\ Utf8Whole(ret.bytes))
    => Streamed = ret.bytes

\* C10: a generation ended by an end-of-generation token, a stop match or
\* maxTokens exhaustion is a success: generateStreaming signals onComplete,
\* generate returns the accumulated text; onError is signalled only when no
\* model is loaded, the prompt is empty or too long, or a decode fails.
C10_SuccessOrError ==
  /\ StreamReturned =>
       /\ s_cause \in SuccessCauses =>
            /\ sinkLog[Len(sinkLog)].type = "complete"
            /\ \A k \in 1..Len(sinkLog) : sinkLog[k].type # "error"
       /\ (\E k \in 1..Len(sinkLog) : sinkLog[k].type = "error") =>
            s_cause \in ErrorCauses
  /\ (g_pc = "returned" /\ g_cause \in SuccessCauses) => ret = TextRet(result)

C10_Witness ==
  /\ StreamReturned /\ s_cause = "stop"
  /\ g_pc = "returned" /\ g_cause = "stop"
  /\ Len(ret.bytes) > 0

\* the tokens before the k-th kept the loop going: none is an
\* end-of-generation token, none completed a stop string, all were decoded
KeptGoing(k) ==
  \A j \in 1..k :
    /\ script[j].tok # "EOG" /\ script[j].ok
    /\ FirstStop(Fragments(j)) = 0

\* what ended the loop at the n-th sampled token
EndedBy(cause, n) ==
  CASE cause = "eog"         -> script[n].tok = "EOG"
    [] cause = "stop"        -> script[n].tok # "EOG" /\ FirstStop(Fragments(n)) # 0
    [] cause = "decode_fail" -> ~script[n].ok
    [] OTHER                 -> FALSE

\* the tokens a decode loop has sampled: one in each whole iteration and one
\* in the iteration that ended it
SampledBy(cause, done) ==
  done + (IF cause \in {"eog", "stop", "decode_fail"} THEN 1 ELSE 0)

\* the single-token decode calls a decode loop has issued
DecodedBy(cause, done) == done + (IF cause = "decode_fail" THEN 1 ELSE 0)

\* a decode loop that made `done` whole iterations and stands at `pc` with
\* `cause` has sampled and decoded no more than the limit allows
LoopBounded(pc, cause, done) ==
  LET N == IF args.maxTokens > 0 THEN args.maxTokens ELSE 128
      sampled == SampledBy(cause, done)
  IN  /\ sampled <= N /\ DecodedBy(cause, done) <= N
      /\ sampled <= Len(script)
      /\ KeptGoing(done)
      /\ pc = "loop" => done < N
      /\ cause = "max" => done = N
      /\ cause \in {"eog", "stop", "decode_fail"} => EndedBy(cause, sampled)

\* a generation call is running in a live process
Running == CallActive /\ ~crashed

\* every token the engine sampled was sampled by one of the two loops
C11_LoopBounded ==
  LET s_in == s_pc = "loop" \/ s_cause \in LoopCauses
      g_in == g_pc = "loop" \/ g_cause \in LoopCauses
  IN  /\ s_in => LoopBounded(s_pc, s_cause, i)
      /\ g_in => LoopBounded(g_pc, g_cause, g_i)
      /\ \/ s_in /\ Len(script) = SampledBy(s_cause, i)
         \/ g_in /\ Len(script) = SampledBy(g_cause, g_i)
         \/ Len(script) = 0

\* C11: every generation call terminates; its decode loop samples at most N
\* tokens and issues at most N single-token decode calls, N = maxTokens when
\* maxTokens > 0 and 128 otherwise, and it stops before N exactly when an
\* end-of-generation token is sampled, a stop string matches or a decode fails.
C11_Terminates == []C11_LoopBounded /\ (Running ~> ~Running)

C11_Witness ==
  /\ args.maxTokens <= 0
  /\ s_pc = "returned" /\ s_cause = "max" /\ i = 128 /\ Len(script) = 128

\* the k-th sampled token is the first end-of-generation token, and nothing
\* ended the loop before it
FirstEogAt(k) ==
  /\ k \in 1..Len(script) /\ script[k].tok = "EOG"
  /\ KeptGoing(k - 1)

\* the fragments of the first n sampled tokens, every one of them kept
RECURSIVE Pieces(_)
Pieces(n) == IF n = 0 THEN <<>> ELSE Pieces(n - 1) \o Piece(script[n].tok)

\* a loop that came to the k-th token, an end-of-generation token, stopped
\* there with the text of the k-1 tokens before it
StoppedAtEog(k, pc, cause, done, text) ==
  (pc # "loop" /\ cause \in LoopCauses /\ SampledBy(cause, done) >= k) =>
    /\ cause = "eog"
    /\ k <= args.maxTokens
    /\ done = k - 1 /\ DecodedBy(cause, done) = k - 1
    /\ text = Pieces(k - 1)

\* C12: when the k-th sampled token is the first end-of-generation token and
\* no stop string matched before it, the loop stops at once with
\* k <= maxTokens: the text is the concatenation of the fragments of the first
\* k-1 tokens, nothing truncated; the end-of-generation token is neither
\* appended nor decoded, and it is tested before any stop string is.
C12_EogStopsAtOnce ==
  \A k \in 1..Len(script) :
    FirstEogAt(k) =>
      /\ StoppedAtEog(k, s_pc, s_cause, i, accumulated)
      /\ StoppedAtEog(k, g_pc, g_cause, g_i, result)
      /\ (g_pc = "returned" /\ g_cause \in LoopCauses) => ret = TextRet(Pieces(k - 1))

\* the end-of-generation token comes third, after a text that its fragment
\* would complete to a stop string
C12_Witness ==
  /\ FirstEogAt(3) /\ script[2].tok = "pre"
  /\ s_pc = "returned" /\ s_cause = "eog"
  /\ g_pc = "returned" /\ g_cause = "eog"
  /\ FirstStop(accumulated \o Piece("EOG")) # 0
  /\ ret.bytes = accumulated

\* C13: in generate, a decode call that fails inside the decode loop is
\* terminal and is reported to the caller as an error value, not as a text
\* result; no token is sampled or decoded after it.
C13_DecodeFailureReported ==
  (g_pc = "returned" /\ g_cause = "decode_fail") =>
    /\ ret.kind = "error"
    /\ ~script[g_i + 1].ok /\ KeptGoing(g_i)
    /\ Len(script) = g_i + 1 \/ s_cause \in LoopCauses

\* the error a prompt of n tokens is rejected with, "" when it is accepted
Rejection(n) ==
  IF n = 0 THEN "ERROR: Empty prompt after tokenization"
  ELSE IF n >= n_ctx THEN "ERROR: Prompt too long for context"
  ELSE ""

\* C14: with a model loaded, a prompt of zero tokens fails with EmptyPrompt
\* and one of at least n_ctx tokens (n_ctx itself included) with
\* PromptTooLong; no decode call is made, no token is sampled, no onToken is
\* delivered and no sampler (or batch) is left allocated.
C14_PromptRejected ==
  LET msg == Rejection(args.nTok)
      loaded == g_model /\ g_context /\ args # NoArgs
  IN  /\ (loaded /\ s_pc = "returned") =>
           /\ s_cause \in {"empty", "too_long"} <=> msg # ""
           /\ s_cause = "empty" <=> args.nTok = 0
           /\ msg # "" =>
                /\ sinkLog = (IF g_stream_callback THEN <<ErrorEv(msg)>> ELSE <<>>)
                /\ s_prefill = <<>> /\ idx = 0 /\ i = 0 /\ script = <<>>
                /\ smpl = "none" /\ batch = "none"
      /\ (loaded /\ g_pc = "returned") =>
           /\ g_cause \in {"empty", "too_long"} <=> msg # ""
           /\ g_cause = "empty" <=> args.nTok = 0
           /\ msg # "" =>
                /\ ret = ErrorRet(msg)
                /\ g_prefill = <<>> /\ g_i = 0 /\ script = <<>>
                /\ g_smpl = "none"
      /\ (loaded /\ msg # "") => s_pc \in {"none", "returned"} /\ g_pc \in {"none", "returned"}

\* a prompt of exactly n_ctx tokens, given to both calls
C14_Witness ==
  /\ g_model /\ g_context /\ args.nTok = n_ctx /\ g_stream_callback
  /\ s_pc = "returned" /\ s_cause = "too_long"
  /\ g_pc = "returned" /\ g_cause = "too_long"

\* the tokens held by the first k batches
RECURSIVE TokensIn(_, _)
TokensIn(batches, k) ==
  IF k = 0 THEN 0 ELSE TokensIn(batches, k - 1) + batches[k].n_tokens

\* the batches hold the n prompt tokens once each and in order, none more
\* than the batch limit, at positions 0..n-1, with logits asked for the last
\* token only
PrefillLaw(batches, n) ==
  /\ \A k \in 1..Len(batches) :
       /\ batches[k].n_tokens \in 1..BatchLimit
       /\ batches[k].idx = TokensIn(batches, k - 1)
       /\ batches[k].pos = batches[k].idx
  /\ TokensIn(batches, Len(batches)) = n
  /\ UNION {batches[k].logits : k \in 1..Len(batches)} = {n - 1}

\* the streaming half of C15
StreamPrefillChunked ==
  (s_pc \in {"loop", "flush"} \/ s_cause \in LoopCauses) =>
    PrefillLaw(s_prefill, args.nTok)

\* C15: prefill submits the prompt tokens in chunks of at most the engine's
\* batch limit, every token once and in order, at positions 0..n-1, and asks
\* for logits for the last token of the last chunk only, in streaming and in
\* non-streaming generation.
C15_PrefillChunked ==
  /\ StreamPrefillChunked
  /\ (g_pc \in {"loop", "exit"} \/ g_cause \in LoopCauses) =>
       PrefillLaw(g_prefill, args.nTok)

\* C16: on every exit path taken after the sampler chain was built (prefill
\* failure, decode failure in the loop, end-of-generation token, stop match,
\* maxTokens exhaustion) the chain is freed exactly once before the call
\* returns, and the prefill batch of generateStreaming is freed exactly once;
\* outside the calls no sampler and no batch is allocated.
C16_ResourcesFreed ==
  /\ smpl # "double_free" /\ g_smpl # "double_free" /\ batch # "double_free"
  /\ s_pc \in {"none", "returned"} => smpl = "none" /\ batch = "none"
  /\ g_pc \in {"none", "returned"} => g_smpl = "none"
  /\ s_pc \in {"prefill", "loop", "flush"} => smpl = SamplerFor(args.temperature)
  /\ s_pc = "prefill" => batch = "allocated"
  /\ s_pc \in {"loop", "flush"} => batch = "none"
  /\ g_pc \in {"loop", "exit"} => g_smpl = SamplerFor(args.temperature)

\* generate failed on the prompt, generateStreaming on a decode in the loop
C16_Witness ==
  /\ g_pc = "returned" /\ g_cause = "prefill_fail"
  /\ s_pc = "returned" /\ s_cause = "decode_fail" /\ i >= 1
  /\ smpl = "none" /\ batch = "none" /\ g_smpl = "none"

\* setTrainingData has just installed a dataset
DataInstalled == t_ret.op = "setTrainingData" /\ t_ret.kind = "data"

\* the least k with k * size >= least, 1 when size >= least
LeastReps(size, least) ==
  CHOOSE k \in 1..Max(1, least) :
    /\ k * size >= least \/ (k = 1 /\ size >= least)
    /\ k = 1 \/ (k - 1) * size < least

\* C17: for n_ctx >= 1 and a text of L >= 2 tokens, setTrainingData uses
\* stride = max(1, n_ctx / 2) and hands to the dataset builder the original
\* tokens repeated whole k times, k = 1 if L >= n_ctx + 1 + stride and else
\* the least k with k * L >= n_ctx + 1 + stride: no repetition is cut.
C17_WholeRepetitions ==
  DataInstalled =>
    LET L == t_ret.size
        least == built.n_ctx + 1 + built.stride
        k == LeastReps(L, least)
    IN  /\ L >= 2 /\ built.n_ctx = n_ctx /\ n_ctx >= 1
        /\ built.stride = (IF n_ctx \div 2 >= 1 THEN n_ctx \div 2 ELSE 1)
        /\ Len(built.tokens) = k * L
        /\ \A j \in 1..Len(built.tokens) : built.tokens[j] = ((j - 1) % L) + 1

\* a text whose padding ends beyond the least length: a cut would show
C17_Witness ==
  /\ DataInstalled /\ t_ret.size = 5 /\ n_ctx = 8
  /\ Len(built.tokens) = 15

\* C18: for n_ctx >= 1, setTrainingData fails with "Training text too short"
\* exactly when the text tokenizes to fewer than 2 tokens, and in every other
\* case it installs a dataset with ndata >= 1.
C18_TooShortIffUnderTwo ==
  (t_ret.op = "setTrainingData" /\ g_context) =>
    /\ n_ctx >= 1 /\ t_ret.size >= 0
    /\ (t_ret.kind = "error" /\ t_ret.msg = "ERROR: Training text too short")
         <=> t_ret.size < 2
    /\ t_ret.size < 2 => g_dataset = NoDataset
    /\ t_ret.size >= 2 =>
         /\ t_ret.kind = "data"
         /\ g_dataset # NoDataset /\ g_dataset.ndata >= 1
         /\ t_ret.ndata = g_dataset.ndata

\* the shortest text that is taken, at the largest context
C18_Witness ==
  /\ DataInstalled /\ t_ret.size = 2 /\ n_ctx = MaxTrainCtx
  /\ g_dataset.ndata >= 1

EpochRun == t_ret.op = "trainEpoch" /\ t_ret.kind = "epoch"

\* C20: for every ndata >= 1 the split index of trainEpoch satisfies
\* 0 < split_index <= ndata; for ndata = 1 the evaluation pass is skipped (no
\* eval result, no eval callback, split_index = ndata); for ndata >= 2
\* evaluation runs and ndata - split_index >= 1.
C20_SplitInvariant ==
  (EpochRun /\ g_dataset.ndata >= 1) =>
    LET d == epoch.ndata
        s == epoch.idata_split
    IN  /\ d = g_dataset.ndata
        /\ 0 < s /\ s <= d
        /\ d = 1 => /\ s = d
                    /\ ~epoch.has_eval /\ ~epoch.result_eval /\ ~epoch.callback_eval
        /\ d >= 2 => /\ d - s >= 1
                     /\ epoch.has_eval /\ epoch.result_eval /\ epoch.callback_eval

\* an epoch over a single example
C20_Witness ==
  /\ EpochRun /\ epoch.ndata = 1 /\ epoch.idata_split = 1 /\ ~epoch.has_eval

\* the streamed offset lies inside the accumulated text
OffsetInside == n_streamed_chars <= Len(accumulated)

\* C29: in every state of a streaming generation the streamed offset is at
\* most the length of the accumulated text, also right after a stop match
\* has truncated the text, and the streamed offset never decreases.
C29_OffsetBounded ==
  /\ []OffsetInside
  /\ [][(s_pc \in {"prefill", "loop", "flush"}) =>
            (n_streamed_chars' >= n_streamed_chars)]_vars

\* a stop match truncated a text of which a part had been streamed
C29_Witness ==
  /\ s_cause = "stop" /\ n_streamed_chars > 0
  /\ Len(accumulated) < Len(Fragments(Len(script)))

\* floor(d * 0.95): the integer f with f <= 0.95 d < f + 1
FloorNinetyFive(d) ==
  CHOOSE f \in 0..d : 100 * f <= 95 * d /\ 95 * d < 100 * (f + 1)

\* C30: for ndata >= 2 the split index of trainEpoch equals
\* max(1, min(ndata - 1, floor(ndata * 0.95))); for ndata = 1 it is ndata.
C30_SplitFormula ==
  (EpochRun /\ epoch.ndata >= 1) =>
    LET d == epoch.ndata
        f == FloorNinetyFive(d)
        least == IF d - 1 <= f THEN d - 1 ELSE f
    IN  /\ d >= 2 => epoch.idata_split = (IF least >= 1 THEN least ELSE 1)
        /\ d = 1 => epoch.idata_split = d

\* a dataset large enough for the 95 % share to fall below ndata - 1
C30_Witness ==
  /\ EpochRun /\ epoch.ndata = MaxNdata /\ epoch.idata_split < epoch.ndata - 1

(***************************************************************************)
(* Sessions: what the operations need and what they leave                  *)
(***************************************************************************)
\* trainEpoch was the last operation of the training unit
EpochAsked == unit = "training" /\ t_ret.op = "trainEpoch"

\* C21: a trainEpoch asked for while no dataset is installed, or while
\* llama_opt_init has not run on the context that is loaded, returns the
\* training-not-initialized error and makes no llama_opt_epoch call
C21_EpochNeedsOptimizer ==
  (EpochAsked /\ (g_dataset = NoDataset \/ ~opt_initialized)) =>
    /\ t_ret.kind = "error"
    /\ t_ret.msg = "ERROR: Training not initialized"
    /\ engine_calls = <<>>

\* the step is one of createLoraAdapter, loadLoraAdapter and initTraining of
\* the training unit
TrainOpStep == unit = "training" /\
  t_ret'.op \in {"createLoraAdapter", "loadLoraAdapter", "initTraining"}
\* the step is the entry of a generateStreaming call
StreamEntry == s_pc = "none" /\ s_pc' # "none"
\* the step is the entry of a generate call
GenEntry == g_pc = "none" /\ g_pc' # "none"
\* the step is a loadLoraAdapter of the inference unit
LoadAdapterStep ==
  unit = "inference" /\ ~CallActive /\ g_pc' = "none" /\ s_pc' = "none" /\ ret' # NoRet

\* what the session holds: handles, engine objects, cache, dataset, optimizer
Held == <<g_backend_initialized, g_model, g_context, n_ctx, g_stream_callback,
          g_adapter, heap, kv_cache, g_dataset, built, opt_initialized>>

\* C22: generate, generateStreaming, createLoraAdapter, loadLoraAdapter and
\* initTraining, called while no model or no context is loaded, return the
\* model-not-loaded error (by onError to the registered stream sink in
\* generateStreaming), make no engine call and leave every handle, the
\* cache, the dataset and the optimizer as they were
C22_NoModelNoEffect ==
  [][(\/ ~g_model \/ ~g_context) =>
       /\ TrainOpStep =>
            /\ t_ret'.kind = "error"
            /\ t_ret'.msg = (IF t_ret'.op = "initTraining"
                             THEN "ERROR: Model, context, or adapter not ready"
                             ELSE "ERROR: Model not loaded")
            /\ engine_calls' = <<>> /\ UNCHANGED Held
       /\ StreamEntry =>
            /\ s_pc' = "returned" /\ s_cause' = "no_model"
            /\ g_stream_callback => sinkLog' = <<ErrorEv("ERROR: Model not loaded")>>
            /\ engine_calls' = <<>> /\ UNCHANGED Held
       /\ GenEntry =>
            /\ g_pc' = "returned" /\ ret' = ErrorRet("ERROR: Model not loaded")
            /\ engine_calls' = <<>> /\ UNCHANGED Held
       /\ LoadAdapterStep =>
            /\ ret' = ErrorRet("ERROR: Model not loaded")
            /\ engine_calls' = <<>> /\ UNCHANGED Held]_vars

\* createLoraAdapter was refused for want of a model while the adapter of a
\* model that failed to be replaced is still held
C22_Witness ==
  /\ unit = "training" /\ t_ret.op = "createLoraAdapter"
  /\ t_ret.msg = "ERROR: Model not loaded"
  /\ g_backend_initialized /\ g_adapter.held /\ engine_calls = <<>>

\* the operations of the training unit that work on a session
SessionOps == {"loadModel", "createLoraAdapter", "loadLoraAdapter",
               "setTrainingData", "initTraining", "trainEpoch"}

\* C23: loadModel, generate, generateStreaming, createLoraAdapter,
\* loadLoraAdapter, setTrainingData, initTraining and trainEpoch, called while
\* the backend is not initialized, fail with the backend-not-initialized
\* error and make no engine call
C23_BackendRequired ==
  ~g_backend_initialized =>
    /\ (unit = "training" /\ t_ret.op \in SessionOps) =>
         /\ t_ret.kind = "error"
         /\ t_ret.msg = "ERROR: Backend not initialized"
         /\ engine_calls = <<>>
    /\ s_pc = "returned" =>
         /\ g_stream_callback => sinkLog = <<ErrorEv("ERROR: Backend not initialized")>>
         /\ engine_calls = <<>>
    /\ g_pc = "returned" =>
         /\ ret = ErrorRet("ERROR: Backend not initialized")
         /\ engine_calls = <<>>
    /\ (unit = "inference" /\ ~CallActive /\ g_pc = "none" /\ s_pc = "none"
          /\ ret # NoRet) =>
         /\ ret = ErrorRet("ERROR: Backend not initialized")
         /\ engine_calls = <<>>

\* the calls that create, free and use an engine object of each kind
Creates(kind) ==
  CASE kind = "model"   -> {"llama_model_load_from_file"}
    [] kind = "context" -> {"llama_init_from_model"}
    [] kind = "adapter" -> {"llama_adapter_lora_create", "llama_adapter_lora_init"}
    [] kind = "dataset" -> {"common_opt_dataset_init"}
Frees(kind) ==
  CASE kind = "model"   -> {"llama_model_free"}
    [] kind = "context" -> {"llama_free"}
    [] kind = "adapter" -> {"llama_adapter_lora_free"}
    [] kind = "dataset" -> {"ggml_opt_dataset_free"}
Uses(kind) ==
  CASE kind = "model"   -> {"llama_init_from_model", "llama_adapter_lora_create",
                            "llama_adapter_lora_init", "llama_opt_init"}
    [] kind = "context" -> {"llama_rm_adapter_lora", "llama_set_adapter_lora",
                            "llama_memory_clear", "common_tokenize", "llama_decode",
                            "common_opt_dataset_init", "llama_opt_init",
                            "llama_opt_epoch"}
    [] kind = "adapter" -> {"llama_rm_adapter_lora", "llama_set_adapter_lora"}
    [] kind = "dataset" -> {"ggml_opt_dataset_ndata", "llama_opt_epoch"}
Kinds == {"model", "context", "adapter", "dataset"}

\* the calls of the last operation before its j-th
Before(j) == SubSeq(engine_calls, 1, j - 1)

\* within the last operation nothing of a kind is used after a free of that
\* kind unless one was created in between
NoUseAfterFree ==
  \A kind \in Kinds : \A f \in 1..Len(engine_calls), u \in 1..Len(engine_calls) :
    (f < u /\ engine_calls[f] \in Frees(kind) /\ engine_calls[u] \in Uses(kind)) =>
      \E c \in (f + 1)..(u - 1) : engine_calls[c] \in Creates(kind)

\* within the last operation whatever is created comes after the frees of
\* what it replaces: the context, then the model; the adapter removed from the
\* context, then freed; the dataset
FreedBeforeCreated ==
  \A j \in 1..Len(engine_calls) :
    /\ engine_calls[j] \in Creates("model") =>
         Before(j) \in {<<>>, <<"llama_free", "llama_model_free">>}
    /\ engine_calls[j] \in Creates("adapter") =>
         Before(j) \in {<<>>, <<"llama_rm_adapter_lora", "llama_adapter_lora_free">>}
    /\ engine_calls[j] \in Creates("dataset") =>
         Before(j) \in {<<"common_tokenize">>,
                        <<"ggml_opt_dataset_free", "common_tokenize">>}

One(held) == IF held THEN 1 ELSE 0

\* C24: of each kind (model, context, adapter, dataset) the engine holds one
\* object when the session holds its handle and none otherwise, so nothing is
\* leaked and nothing is freed twice; an operation that replaces a handle
\* frees the prior object before it creates the new one, loadModel the
\* context before the model, and uses nothing it has freed
C24_HandlesOwnedOnce ==
  /\ heap.model = One(g_model)
  /\ heap.context = One(g_context)
  /\ heap.adapter = One(g_adapter.held)
  /\ heap.dataset = One(g_dataset # NoDataset)
  /\ FreedBeforeCreated
  /\ NoUseAfterFree

\* loadModel has replaced a model while an adapter and a dataset were held
C24_Witness ==
  /\ unit = "training" /\ t_ret.op = "loadModel" /\ t_ret.kind = "ok"
  /\ engine_calls = <<"llama_free", "llama_model_free",
                      "llama_model_load_from_file", "llama_init_from_model">>
  /\ g_adapter.held /\ g_dataset # NoDataset

\* the messages of an adapter operation that failed after the model check
AdapterFailures == {"ERROR: Failed to create LoRA adapter",
                    "ERROR: Failed to load LoRA adapter",
                    "ERROR: Failed to apply LoRA adapter",
                    "ERROR: Failed to apply loaded LoRA adapter"}

\* the message of the adapter operation that was the last operation and failed
AdapterFailure ==
  IF unit = "training"
  THEN IF t_ret.op \in {"createLoraAdapter", "loadLoraAdapter"} /\ t_ret.kind = "error"
       THEN t_ret.msg ELSE ""
  ELSE IF g_pc = "none" /\ s_pc = "none" /\ ret.kind = "error" THEN ret.msg ELSE ""

\* C25: at most one adapter is set on the context, and it is the one held;
\* createLoraAdapter and loadLoraAdapter remove the adapter held from the
\* context and free it before they make the new one; when making or setting
\* the new one fails, the message says which, and no adapter is held or set
C25_OneAdapterApplied ==
  /\ heap.applied <= 1
  /\ heap.applied = 1 => (g_adapter.held /\ g_adapter.applied)
  /\ \A j \in 1..Len(engine_calls) :
       engine_calls[j] \in Creates("adapter") =>
         Before(j) \in {<<>>, <<"llama_rm_adapter_lora", "llama_adapter_lora_free">>}
  /\ AdapterFailure \in AdapterFailures =>
       /\ ~g_adapter.held /\ heap.adapter = 0 /\ heap.applied = 0
       /\ LET last == engine_calls[Len(engine_calls)]
          IN  /\ last = "llama_adapter_lora_create" =>
                   AdapterFailure = "ERROR: Failed to create LoRA adapter"
              /\ last = "llama_adapter_lora_init" =>
                   AdapterFailure = "ERROR: Failed to load LoRA adapter"
              /\ last = "llama_adapter_lora_free" =>
                   AdapterFailure \in {"ERROR: Failed to apply LoRA adapter",
                                       "ERROR: Failed to apply loaded LoRA adapter"}

\* createLoraAdapter replaced an adapter by one that could not be set
C25_Witness ==
  /\ unit = "training" /\ t_ret.op = "createLoraAdapter"
  /\ t_ret.msg = "ERROR: Failed to apply LoRA adapter"
  /\ engine_calls = <<"llama_rm_adapter_lora", "llama_adapter_lora_free",
                      "llama_adapter_lora_create", "llama_set_adapter_lora",
                      "llama_adapter_lora_free">>
  /\ ~g_adapter.held

\* a generation call has passed the model check
PassedModelCheck ==
  \/ s_pc # "none" /\ s_cause # "no_model"
  \/ g_pc # "none" /\ g_cause # "no_model"

\* C28: a generation call that has passed the model check has cleared the
\* memory of the context before it tokenized the prompt and before its first
\* llama_decode, and no llama_decode adds to what an earlier call left there
C28_CacheResetFirst ==
  /\ kv_cache # "mixed"
  /\ PassedModelCheck =>
       /\ Len(engine_calls) >= 2
       /\ engine_calls[1] = "llama_memory_clear"
       /\ engine_calls[2] = "common_tokenize"
       /\ \A j \in 1..Len(engine_calls) : engine_calls[j] = "llama_decode" => j > 2

\* generate is in its loop after a generateStreaming call that decoded a
\* prompt has returned
C28_Witness ==
  /\ s_pc = "returned" /\ s_prefill # <<>>
  /\ g_pc = "loop" /\ g_prefill # <<>>
  /\ kv_cache = "fresh"

(***************************************************************************)
(* Sinks under concurrent callers                                          *)
(***************************************************************************)
\* C26: while setStreamCallback or cleanupLlama runs on another thread, no
\* invocation of the stream sink by generateStreaming goes through a
\* reference that DeleteGlobalRef has released
C26_StreamSinkGuarded ==
  /\ invoked.stream # "deleted"
  /\ \A t \in Threads : t_pc[t] \in {"stream_call", "error_call"} => t_hold[t] # "deleted"

\* a thread is about to call onLog
Logging(t) == t_pc[t] = "log_call"

\* C27: a thread that calls onLog holds the log lock and calls through the
\* sink that is registered, which was registered when it took the lock; a
\* sink that is replaced or cleaned up is released once (the references made
\* and not deleted are the one registered); no onLog goes through a released
\* or absent sink
C27_LogSinkAtomic ==
  /\ invoked.log \in {"none", "live"}
  /\ log_refs = One(g_log_callback)
  /\ \A t \in Threads :
       Logging(t) => (g_log_mutex = t /\ g_log_callback /\ t_hold[t] = "live")
  /\ t_pc["ctl"] \in {"set_log", "set_log_new", "clean_log"} =>
       (g_log_mutex = "ctl" /\ \A t \in Threads : ~Logging(t))

\* a log sink that has received onLog calls was released under the lock and
\* its replacement is about to be registered, with no thread inside ui_log
C27_Witness ==
  /\ t_pc["ctl"] = "set_log_new" /\ t_arg
  /\ ~g_log_callback /\ log_refs = 0
  /\ invoked.log = "live"

(***************************************************************************)
(* Sessions: the handles between the operations                            *)
(***************************************************************************)
\* the last operation was a loadModel that replaced a loaded model and whose
\* context could not be created
ContextFailedOnReload ==
  engine_calls = <<"llama_free", "llama_model_free", "llama_model_load_from_file",
                   "llama_init_from_model", "llama_model_free">>

\* C33: between the operations the model handle is present exactly when the
\* context handle is, hasModel is true exactly when the engine holds a model
\* with its context, and a model is present only while the backend is
\* initialized
C33_ModelIffContext ==
  /\ g_model <=> g_context
  /\ hasModel <=> (heap.model = 1 /\ heap.context = 1)
  /\ heap.model = heap.context
  /\ g_model => g_backend_initialized

C33_Witness == ContextFailedOnReload /\ ~hasModel /\ g_backend_initialized

\* C34: while an adapter is held, a model and a context are loaded, the
\* adapter was made from the model that is loaded and it is applied to the
\* context that is loaded
C34_AdapterOfLoadedModel ==
  g_adapter.held => /\ g_model /\ g_context
                    /\ g_adapter.of_model
                    /\ g_adapter.applied

\* the step is a loadModel call of the unit that is loaded
LoadModelStep ==
  \/ unit = "inference" /\ \E nCtx \in CtxChoices, modelOk \in BOOLEAN, ctxOk \in BOOLEAN :
                              loadModel(nCtx, modelOk, ctxOk)
  \/ unit = "training" /\ t_ret'.op = "loadModel"

\* the errors of a loadModel that passed the backend check
LoadFailures == {"ERROR: Failed to load model", "ERROR: Failed to create context"}

\* C36: a loadModel that fails to load the model or to create the context
\* leaves no model and no context, the ones loaded before freed first, and a
\* generation asked for afterwards returns the model-not-loaded error; a
\* loadModel refused for the uninitialized backend leaves every handle as it
\* was, and no other failing loadModel leaves a loaded model in place
C36_FailedLoadDropsModel ==
  [][/\ (LoadModelStep /\ ~g_backend_initialized) =>
          /\ UNCHANGED Held /\ engine_calls' = <<>>
          /\ unit = "training" => t_ret'.msg = "ERROR: Backend not initialized"
     /\ (LoadModelStep /\ g_backend_initialized /\ ~hasModel') =>
          /\ ~g_model' /\ ~g_context'
          /\ heap'.model = 0 /\ heap'.context = 0
          /\ unit = "training" => t_ret'.kind = "error" /\ t_ret'.msg \in LoadFailures
          /\ hasModel => /\ SubSeq(engine_calls', 1, 3) =
                               <<"llama_free", "llama_model_free",
                                 "llama_model_load_from_file">>
                          /\ Held' # Held
     /\ (~hasModel /\ GenEntry) =>
          g_pc' = "returned" /\ ret' = ErrorRet("ERROR: Model not loaded")
     /\ (~hasModel /\ StreamEntry) =>
          s_pc' = "returned" /\ s_cause' = "no_model"]_vars

\* a reload failed to load the model file: the model loaded before is gone
C36_Witness ==
  /\ unit = "training" /\ t_ret.op = "loadModel"
  /\ t_ret.msg = "ERROR: Failed to load model"
  /\ engine_calls = <<"llama_free", "llama_model_free", "llama_model_load_from_file">>
  /\ ~hasModel /\ heap.model = 0

\* the operation named was the last one of the training unit and returned
\* the error named
Failed(op, msg) == unit = "training" /\ t_ret.op = op /\ t_ret.msg = msg

\* C37: a setTrainingData that fails for a text too short leaves no dataset,
\* the one installed before freed first and none built, and the trainEpoch
\* that follows returns the training-not-initialized error without an
\* optimizer pass; a setTrainingData refused for want of a context leaves
\* the dataset as it was
C37_TooShortDropsDataset ==
  [][/\ Failed("setTrainingData", "ERROR: Training text too short")' =>
          /\ g_dataset' = NoDataset /\ heap'.dataset = 0
          /\ UNCHANGED built
          /\ engine_calls' = When(g_dataset # NoDataset, <<"ggml_opt_dataset_free">>)
                                \o <<"common_tokenize">>
     /\ (Failed("setTrainingData", "ERROR: Training text too short")
           /\ t_ret'.op = "trainEpoch") =>
          /\ t_ret'.kind = "error"
          /\ t_ret'.msg = "ERROR: Training not initialized"
          /\ engine_calls' = <<>>
     /\ Failed("setTrainingData", "ERROR: Context not initialized")' =>
          /\ ~g_context
          /\ UNCHANGED <<g_dataset, built, heap>>
          /\ engine_calls' = <<>>]_vars

\* a text too short was given while a dataset was installed
C37_Witness ==
  /\ Failed("setTrainingData", "ERROR: Training text too short")
  /\ engine_calls = <<"ggml_opt_dataset_free", "common_tokenize">>
  /\ g_dataset = NoDataset /\ built # NoBuild

\* C39: a trainEpoch asked for while no adapter is held and applied to the
\* context, as after removeLoraAdapter or a failed creation, returns an error
\* and makes no llama_opt_epoch call
C39_EpochNeedsAdapter ==
  (EpochAsked /\ ~(g_adapter.held /\ g_adapter.applied)) =>
    /\ t_ret.kind = "error"
    /\ \A j \in 1..Len(engine_calls) : engine_calls[j] # "llama_opt_epoch"

\* the step is a cleanupLlama call of the unit that is loaded
CleanupStep ==
  \/ unit = "inference" /\ cleanupLlama
  \/ unit = "training" /\ t_ret'.op = "cleanupLlama"

\* in the call sequence every call named `first` comes before every call
\* named `then`
Ordered(seq, first, then) ==
  \A j, k \in 1..Len(seq) : (seq[j] = first /\ seq[k] = then) => j < k

\* no engine call is made twice in the sequence
OnceEach(seq) == \A j, k \in 1..Len(seq) : seq[j] = seq[k] => j = k

\* C35: cleanupLlama leaves no dataset, adapter, context or model, the
\* backend uninitialized and both sinks released; it removes the adapter from
\* the context before it frees either, frees the context before the model
\* and the model before the backend, each once; called again it frees
\* nothing, and a loadModel that follows fails for the uninitialized backend
C35_CleanupReleasesAll ==
  [][/\ CleanupStep =>
          /\ g_dataset' = NoDataset /\ g_adapter' = NoAdapter
          /\ ~g_context' /\ ~g_model' /\ ~g_backend_initialized'
          /\ heap' = NoHeap
          /\ ~g_stream_callback' /\ ~g_log_callback' /\ log_refs' = 0
          /\ g_adapter.applied =>
               \E j \in 1..Len(engine_calls') : engine_calls'[j] = "llama_rm_adapter_lora"
          /\ Ordered(engine_calls', "llama_rm_adapter_lora", "llama_adapter_lora_free")
          /\ Ordered(engine_calls', "llama_rm_adapter_lora", "llama_free")
          /\ Ordered(engine_calls', "llama_adapter_lora_free", "llama_model_free")
          /\ Ordered(engine_calls', "llama_free", "llama_model_free")
          /\ Ordered(engine_calls', "llama_model_free", "llama_backend_free")
          /\ OnceEach(engine_calls')
     /\ (CleanupStep /\ ~g_backend_initialized) =>
          /\ heap = NoHeap /\ engine_calls' = <<>>
     /\ (LoadModelStep /\ ~g_backend_initialized) =>
          /\ ~hasModel' /\ heap' = NoHeap /\ engine_calls' = <<>>
          /\ unit = "training" =>
               t_ret'.kind = "error" /\ t_ret'.msg = "ERROR: Backend not initialized"]_vars

\* the training unit cleaned up while it held a dataset, an applied adapter,
\* a context, a model and the backend
C35_Witness ==
  /\ unit = "training" /\ t_ret.op = "cleanupLlama"
  /\ engine_calls = <<"ggml_opt_dataset_free", "llama_rm_adapter_lora",
                      "llama_adapter_lora_free", "llama_free", "llama_model_free",
                      "llama_backend_free">>
  /\ heap = NoHeap /\ ~g_backend_initialized

(***************************************************************************)
(* Generations on a small context window, with prompts that just fit and   *)
(* prompts that do not.                                                    *)
(***************************************************************************)
WindowCtx == 4
WindowPromptSizes == {WindowCtx - 1, WindowCtx}
WindowMaxTokens == {2}
WindowTemps == {0}

WindowNext ==
  \/ setStreamCallback(TRUE)
  \/ initLlamaBackend
  \/ loadModel(WindowCtx, TRUE, TRUE)
  \/ \E nTok \in WindowPromptSizes, maxTokens \in WindowMaxTokens,
        temperature \in WindowTemps :
       generateStreaming(nTok, maxTokens, temperature)
  \/ \E ok \in BOOLEAN : s_PrefillChunk(ok)
  \/ s_Step
  \/ s_Finish
  \/ \E nTok \in WindowPromptSizes, maxTokens \in WindowMaxTokens,
        temperature \in WindowTemps, promptOk \in BOOLEAN :
       generate(nTok, maxTokens, temperature, promptOk)
  \/ g_Step
  \/ g_Return

WindowSpec == Init /\ [][WindowNext]_vars

\* the positions of the tokens the decode loop has given to llama_decode,
\* after a prompt of p tokens: one for each iteration that went on, and the
\* one of the decode that failed
LoopPositions(p, done, cause) ==
  {p + k : k \in 0..(done - 1)} \cup (IF cause = "decode_fail" THEN {p + done} ELSE {})

\* C38: every token a generation gives to llama_decode has a position below
\* the size of the context window
C38_PositionsInsideWindow ==
  /\ s_pc \in {"loop", "flush", "returned"} =>
       \A q \in LoopPositions(args.nTok, i, s_cause) : q < n_ctx
  /\ g_pc \in {"loop", "exit", "returned"} =>
       \A q \in LoopPositions(args.nTok, g_i, g_cause) : q < n_ctx

(***************************************************************************)
(* The stream sink that is absent                                          *)
(***************************************************************************)
\* C40: a generateStreaming call made while no stream sink is registered
\* issues no call through the null sink reference, on its error paths and on
\* its token, flush and completion paths alike, and so cannot abort on one
C40_NoCallThroughAbsentSink == ~nullSinkCall /\ ~crashed

(***************************************************************************)
(* The stop test of one iteration                                          *)
(***************************************************************************)
\* stop string k is the first of the table, in its order, that ends the text
FirstInOrder(text, k) ==
  /\ EndsWith(text, stop_strs[k])
  /\ \A j \in 1..(k - 1) : ~EndsWith(text, stop_strs[j])

\* what the stop test of one iteration made of the text `before` that the
\* token added its fragment to: when a stop string ends the text, the first
\* one in order is cut from its end, once, and the loop is left for it; when
\* none does, the text is kept whole
StopTestLaw(before, tok, after, cause) ==
  LET text == before \o Piece(tok)
  IN  IF \E k \in 1..Len(stop_strs) : EndsWith(text, stop_strs[k])
      THEN /\ cause = "stop"
           /\ \E k \in 1..Len(stop_strs) :
                /\ FirstInOrder(text, k)
                /\ after \o stop_strs[k] = text
      ELSE cause # "stop" /\ after = text

\* C32: after each generated token the stop strings are tested as suffixes
\* of the accumulated text in the order of the table; the first that matches
\* is cut from the end of the text, it alone and once, and ends the loop
C32_FirstStopApplied ==
  [][/\ (s_pc = "loop" /\ ~crashed' /\ Len(script') > i /\ ~IsEog(script'[i + 1].tok)) =>
          StopTestLaw(accumulated, script'[i + 1].tok, accumulated', s_cause')
     /\ (g_pc = "loop" /\ Len(script') > g_i /\ ~IsEog(script'[g_i + 1].tok)) =>
          StopTestLaw(result, script'[g_i + 1].tok, result', g_cause')]_vars

\* a stop string was cut from a text that ended with two of them: the other
\* one is still there
C32_Witness ==
  /\ s_pc = "flush" /\ s_cause = "stop"
  /\ EndsWith(accumulated, stop_strs[1])

(***************************************************************************)
(* utf8_complete_len on its own: every buffer of up to MaxBuf bytes, each   *)
(* byte an ASCII byte, a continuation byte, the lead byte of a character of *)
(* two, three or four bytes, or a byte that is neither, and every len up to *)
(* the size of the buffer.                                                 *)
(***************************************************************************)
MaxBuf == 4
Bytes == {65, 128, 195, 226, 240, 255}
Buffers == UNION {[1..n -> Bytes] : n \in 0..MaxBuf}

Utf8Init ==
  /\ InitSession /\ longRun = FALSE /\ TrainIdle /\ unit = "inference"
  /\ \E b \in Buffers : \E n \in 0..Len(b) :
       utf8_call = [buf |-> b, len |-> n, returned |-> FALSE, r |-> 0]

\* the call is made and returns
utf8_complete_len_call ==
  /\ ~utf8_call.returned
  /\ utf8_call' = [utf8_call EXCEPT
                     !.returned = TRUE,
                     !.r = utf8_complete_len(utf8_call.buf, utf8_call.len)]
  /\ UNCHANGED <<session, faults, args, script, stream, gen, longRun, train, unit,
                 sinks, handles>>

Utf8Next == utf8_complete_len_call

Utf8Spec == Utf8Init /\ [][Utf8Next]_vars

\* the first n bytes of the buffer
FirstBytes(b, n) == SubSeq(b, 1, n)

\* k is a character boundary of the text s: the bytes before it are whole
\* characters
Boundary(s, k) == Utf8Whole(FirstBytes(s, k))

\* C31: utf8_complete_len(buf, len) returns r with 0 <= r <= len; when the
\* first len bytes are the beginning of a UTF-8 text, r is the largest
\* character boundary up to len: len when the last character is complete,
\* else the index of the lead byte of the last character, which is cut short
C31_LargestBoundary ==
  utf8_call.returned =>
    LET s == FirstBytes(utf8_call.buf, utf8_call.len)
        r == utf8_call.r
    IN  /\ 0 <= r /\ r <= utf8_call.len
        /\ Utf8Prefix(s) =>
             /\ Boundary(s, r)
             /\ \A k \in (r + 1)..Len(s) : ~Boundary(s, k)
             /\ (r = Len(s)) <=> Utf8Whole(s)
             /\ r < Len(s) =>
                  /\ Expected(s[r + 1]) > Len(s) - r
                  /\ \A k \in (r + 2)..Len(s) : IsCont(s[k])

\* a character of three bytes after an ASCII byte, cut after its second byte
C31_Witness ==
  /\ utf8_call.returned
  /\ FirstBytes(utf8_call.buf, utf8_call.len) = <<65, 226, 128>>
  /\ utf8_call.r = 1

====
